---------------------------- MODULE Spec2Model ----------------------------
(***************************************************************************)
(* A model of blenkernel/intern/geometry_component_curve.cc: the           *)
(* CurveComponent (ownership of a CurveEval, copy-on-write, the cached     *)
(* render curve), the point <-> spline domain adapters and the virtual     *)
(* arrays that present per-spline storage as one flat array.               *)
(***************************************************************************)
EXTENDS Integers, Sequences, FiniteSets, TLC

(***************************************************************************)
(* Bounds of the model.                                                    *)
(***************************************************************************)
\* Number of CurveEval objects that can ever be allocated in one behaviour.
MaxCurves == 4
\* Number of render curves (BKE_id_new_nomain) created in one behaviour.
MaxRenders == 2
\* Threads calling get_curve_for_render() concurrently.
NumThreads == 3
\* Calls of get_curve_for_render() each thread makes.
MaxCalls == 2

NULL == 0

\* GeometryOwnershipType, as far as the component distinguishes it.
Owned == "Owned"
ReadOnly == "ReadOnly"
GeometryOwnershipType == {Owned, ReadOnly}

CurveIds == 1..MaxCurves
Threads == 1..NumThreads

VARIABLES
  curve_,             \* CurveComponent::curve_ (NULL or a CurveEval id)
  ownership_,         \* CurveComponent::ownership_
  curve_for_render_,  \* CurveComponent::curve_for_render_ : [id, curve_eval]
  heap,               \* CurveEval objects: id -> [st, splines]
  op,                 \* the member function that ran last
  ret,                \* what it returned (a pointer, or NULL)
  crashed,            \* the process dereferenced a null CurveEval
  builds,             \* render curves created so far
  pc,                 \* per thread: position inside get_curve_for_render()
  mutex,              \* curve_for_render_mutex_: NULL or the holding thread
  tret,               \* per thread: what its last call returned
  calls,              \* per thread: calls started
  varray,             \* the virtual array handed to the domain adapter
  from_domain,        \* the domain it is given in
  to_domain,          \* the domain it is asked for
  adapted,            \* what attribute_try_adapt_domain_impl() returned
  looked,             \* the last lookup_point_indices() call and its result
  lookup,             \* the write/read attribute lookup a provider returned
  written,            \* the last set() through it: [index, value]
  got,                \* the last get(): [index, value]
  phase,              \* how far the caller of the attribute API has come
  mask,               \* the IndexMask of the last materialize call
  dst,                \* its destination buffer: per index [writes, value]
  cursor,             \* where its spline cursor ended
  result,             \* what the last try_create / try_delete returned
  new_component       \* the CurveComponent the last copy() returned

compVars == <<curve_, ownership_, curve_for_render_, heap, op, ret, crashed, builds>>
threadVars == <<pc, mutex, tret, calls>>
ioVars == <<varray, from_domain, to_domain, adapted, looked, lookup, written, got, phase>>
bulkVars == <<mask, dst, cursor, result, new_component>>
vars == <<curve_, ownership_, curve_for_render_, heap, op, ret, crashed, builds,
          pc, mutex, tret, calls,
          varray, from_domain, to_domain, adapted, looked, lookup, written, got, phase,
          mask, dst, cursor, result, new_component>>

(***************************************************************************)
(* Values, domains and spline kinds.                                       *)
(***************************************************************************)
ATTR_DOMAIN_POINT == "POINT"
ATTR_DOMAIN_CURVE == "CURVE"
\* Any domain a curve component has no data in.
ATTR_DOMAIN_FACE == "FACE"
AttributeDomain == {ATTR_DOMAIN_POINT, ATTR_DOMAIN_CURVE, ATTR_DOMAIN_FACE}

CURVE_TYPE_POLY == "POLY"
CURVE_TYPE_BEZIER == "BEZIER"
CURVE_TYPE_NURBS == "NURBS"
CurveTypes == {CURVE_TYPE_POLY, CURVE_TYPE_BEZIER, CURVE_TYPE_NURBS}

\* C++ containers are indexed from 0, sequences from 1.
At(seq, i) == seq[i + 1]
IndexRange(n) == 0..(n - 1)
Last(seq) == seq[Len(seq)]

\* A float is kept exactly, as a fraction n/d in lowest terms with d > 0.
RECURSIVE Gcd(_, _)
Gcd(a, b) == IF b = 0 THEN a ELSE Gcd(b, a % b)

Abs(x) == IF x < 0 THEN -x ELSE x

Fraction(n, d) ==
  LET g == Gcd(Abs(n), Abs(d))
      sign == IF d < 0 THEN -1 ELSE 1
  IN [n |-> sign * (n \div g), d |-> sign * (d \div g)]

Float(v) == [n |-> v, d |-> 1]

FloatAdd(a, b) == Fraction(a.n * b.d + b.n * a.d, a.d * b.d)

FloatDivide(a, count) == Fraction(a.n, a.d * count)

\* T(): the value-initialised value of an attribute type.
DefaultValue(type) ==
  CASE type = "float" -> Float(0)
    [] type = "bool" -> FALSE
    [] OTHER -> 0

(***************************************************************************)
(* Offsets and lookup_point_indices().                                     *)
(***************************************************************************)
RECURSIVE SizeOfFirst(_, _)
SizeOfFirst(splines, k) ==
  IF k = 0 THEN 0 ELSE SizeOfFirst(splines, k - 1) + splines[k].size

\* CurveEval::control_point_offsets(): offsets[i] is the number of points of
\* the splines before spline i; one entry more than there are splines.
control_point_offsets(splines) ==
  [k \in 1..(Len(splines) + 1) |-> SizeOfFirst(splines, k - 1)]

\* std::upper_bound(first, first + count, value) over offsets: the index of
\* the first entry greater than value, by bisection.
RECURSIVE upper_bound(_, _, _, _)
upper_bound(offsets, first, count, value) ==
  IF count <= 0
    THEN first
    ELSE LET step == count \div 2
             it == first + step
         IN IF ~(value < At(offsets, it))
              THEN upper_bound(offsets, it + 1, count - (step + 1), value)
              ELSE upper_bound(offsets, first, step, value)

\* lookup_point_indices() without the step back from the upper bound.
lookup_point_indices_NoStepBack(offsets, index) ==
  LET spline_index == upper_bound(offsets, 0, Len(offsets), index)
  IN [spline_index |-> spline_index,
      point_index |-> index - At(offsets, spline_index - 1)]

lookup_point_indices(offsets, index) ==
  LET spline_index == upper_bound(offsets, 0, Len(offsets), index) - 1
  IN [spline_index |-> spline_index,
      point_index |-> index - At(offsets, spline_index)]

(***************************************************************************)
(* Splines.                                                                *)
(***************************************************************************)
\* Named custom data layers a spline can carry (Spline::attributes).
LayerNames == {"id", "weight"}
NoLayer == [type |-> "none", data |-> <<>>]

Filled(n, v) == [i \in 1..n |-> v]

\* A layer as CustomDataAttributes::create() makes it: default values.
NewLayer(type, size) == [type |-> type, data |-> Filled(size, DefaultValue(type))]

\* The type each layer name is created with in this model.
LayerType(name) == IF name = "id" THEN "int" ELSE "float"


\* A spline of the given kind and size with default point data and the given
\* layers. Only Bezier splines have handles; a poly spline has no resolution
\* (the field is never read for it).
MakeSpline(type, size, layers) ==
  [type |-> type,
   size |-> size,
   positions |-> Filled(size, Float(0)),
   radii |-> Filled(size, Float(0)),
   tilts |-> Filled(size, Float(0)),
   handle_positions_left |->
     IF type = CURVE_TYPE_BEZIER THEN Filled(size, Float(0)) ELSE <<>>,
   handle_positions_right |->
     IF type = CURVE_TYPE_BEZIER THEN Filled(size, Float(0)) ELSE <<>>,
   resolution |-> IF type = CURVE_TYPE_POLY THEN 1 ELSE 2,
   is_cyclic |-> FALSE,
   attributes |->
     [n \in LayerNames |-> IF n \in layers THEN NewLayer(LayerType(n), size) ELSE NoLayer],
   cache_valid |-> TRUE]

\* CurveEval::has_spline_with_type
has_spline_with_type(splines, type) ==
  \E k \in 1..Len(splines) : splines[k].type = type

\* The loop of CurveComponent::attribute_domain_size for ATTR_DOMAIN_POINT.
RECURSIVE TotalPoints(_, _)
TotalPoints(splines, k) ==
  IF k = 0 THEN 0 ELSE TotalPoints(splines, k - 1) + splines[k].size

\* CurveComponent::attribute_domain_size on a component holding curve c
\* (NULL: no curve) in heap h.
attribute_domain_size(h, c, domain) ==
  IF c = NULL THEN 0
  ELSE IF domain = ATTR_DOMAIN_POINT THEN TotalPoints(h[c].splines, Len(h[c].splines))
  ELSE IF domain = ATTR_DOMAIN_CURVE THEN Len(h[c].splines)
  ELSE 0

(***************************************************************************)
(* Generic virtual arrays (GVArray) as the domain adapter sees them.       *)
(***************************************************************************)
\* A default-constructed GVArray: no implementation behind it.
NoVArray == [kind |-> "absent", type |-> "none", data |-> <<>>, offsets |-> <<>>]

\* VArray<T>::ForSpan / ForContainer: the values themselves.
SpanVArray(type, data) ==
  [kind |-> "span", type |-> type, data |-> data, offsets |-> <<>>]

\* VArray<T>::ForContainer(values): a new array that owns its values.
ContainerVArray(type, data) ==
  [kind |-> "container", type |-> type, data |-> data, offsets |-> <<>>]

\* VArray_For_SplineToPoint(original_varray, offsets): keeps the per-spline
\* values and the offsets; its size is offsets.last().
VArray_For_SplineToPoint(original_data, type, offsets) ==
  [kind |-> "SplineToPoint", type |-> type, data |-> original_data,
   offsets |-> offsets]

VArrayPresent(va) == va.kind # "absent"

VArraySize(va) ==
  IF va.kind = "SplineToPoint" THEN Last(va.offsets) ELSE Len(va.data)

VArrayIsEmpty(va) == VArraySize(va) = 0

\* A get() that gives every point the value of the first spline.
SplineToPointGet_FirstSpline(va, index) == At(va.data, 0)

\* VArray_For_SplineToPoint::get
SplineToPointGet(va, index) ==
  At(va.data, lookup_point_indices(va.offsets, index).spline_index)

VArrayGet(va, index) ==
  IF va.kind = "SplineToPoint"
    THEN SplineToPointGet(va, index)
    ELSE At(va.data, index)

\* The values of a virtual array in index order (VArray_Span, GVArray_GSpan).
VArrayValues(va) == [k \in 1..VArraySize(va) |-> VArrayGet(va, k - 1)]

(***************************************************************************)
(* The domain adapter.                                                     *)
(***************************************************************************)
\* attribute_math::DefaultMixer<T>: a sum and a weight per output value;
\* finalize() divides, and leaves the default where nothing was mixed in.
MixerStart == [sum |-> Float(0), weight |-> 0]

MixIn(acc, value) == [sum |-> FloatAdd(acc.sum, value), weight |-> acc.weight + 1]

MixerFinalize(acc) ==
  IF acc.weight > 0 THEN FloatDivide(acc.sum, acc.weight) ELSE DefaultValue("float")

\* The inner loop of adapt_curve_domain_point_to_spline_impl<T>, from i_point on.
RECURSIVE MixSplinePoints(_, _, _, _, _)
MixSplinePoints(old_values, spline_offset, spline_point_len, i_point, acc) ==
  IF i_point >= spline_point_len
    THEN acc
    ELSE MixSplinePoints(old_values, spline_offset, spline_point_len, i_point + 1,
                         MixIn(acc, VArrayGet(old_values, spline_offset + i_point)))

\* A mixing loop that reads every spline from the start of the flat array.
MixSplineOffset_FromStart(offsets, i_spline) == At(offsets, 0)

\* Where the points of spline i_spline start in the flat array.
MixSplineOffset(offsets, i_spline) == At(offsets, i_spline)

adapt_curve_domain_point_to_spline_impl(splines, old_values) ==
  LET splines_len == Len(splines)
      offsets == control_point_offsets(splines)
  IN [k \in 1..splines_len |->
        LET i_spline == k - 1
            spline_offset == MixSplineOffset(offsets, i_spline)
            spline_point_len == At(offsets, i_spline + 1) - spline_offset
        IN MixerFinalize(MixSplinePoints(old_values, spline_offset,
                                         spline_point_len, 0, MixerStart))]

\* A bool loop that selects a spline as soon as one of its points is
\* selected.
RECURSIVE SplineAllSelected_Any(_, _, _, _)
SplineAllSelected_Any(old_values, spline_offset, spline_point_len, i_point) ==
  IF i_point >= spline_point_len
    THEN spline_point_len = 0
    ELSE IF VArrayGet(old_values, spline_offset + i_point)
      THEN TRUE
      ELSE SplineAllSelected_Any(old_values, spline_offset, spline_point_len, i_point + 1)

\* The inner loop of the bool specialisation, from i_point on: false at the
\* first unselected point (break), true when the loop runs out.
RECURSIVE SplineAllSelected(_, _, _, _)
SplineAllSelected(old_values, spline_offset, spline_point_len, i_point) ==
  IF i_point >= spline_point_len
    THEN TRUE
    ELSE IF ~VArrayGet(old_values, spline_offset + i_point)
      THEN FALSE
      ELSE SplineAllSelected(old_values, spline_offset, spline_point_len, i_point + 1)

\* Where the bool specialisation starts reading the points of spline i_spline.
BoolSplineOffset(offsets, i_spline) == At(offsets, i_spline)

adapt_curve_domain_point_to_spline_impl_bool(splines, old_values) ==
  LET splines_len == Len(splines)
      offsets == control_point_offsets(splines)
  IN [k \in 1..splines_len |->
        LET i_spline == k - 1
            spline_offset == BoolSplineOffset(offsets, i_spline)
            spline_point_len == At(offsets, i_spline + 1) - spline_offset
        IN SplineAllSelected(old_values, spline_offset, spline_point_len, 0)]

adapt_curve_domain_point_to_spline(splines, va) ==
  IF va.type = "bool"
    THEN ContainerVArray("bool", adapt_curve_domain_point_to_spline_impl_bool(splines, va))
    ELSE ContainerVArray(va.type, adapt_curve_domain_point_to_spline_impl(splines, va))

adapt_curve_domain_spline_to_point(splines, va) ==
  VArray_For_SplineToPoint(VArrayValues(va), va.type, control_point_offsets(splines))

\* Early returns that let an empty array through.
AdaptReturnsAbsent_NoEmptyCheck(va) == ~VArrayPresent(va)

\* The three early returns of attribute_try_adapt_domain_impl().
AdaptReturnsAbsent(va) == ~VArrayPresent(va) \/ VArrayIsEmpty(va)

\* An adapter without the return for equal domains.
attribute_try_adapt_domain_impl_NoSameDomain(splines, va, from, to) ==
  IF AdaptReturnsAbsent(va) THEN NoVArray
  ELSE IF from = ATTR_DOMAIN_POINT /\ to = ATTR_DOMAIN_CURVE
    THEN adapt_curve_domain_point_to_spline(splines, va)
  ELSE IF from = ATTR_DOMAIN_CURVE /\ to = ATTR_DOMAIN_POINT
    THEN adapt_curve_domain_spline_to_point(splines, va)
  ELSE NoVArray

\* attribute_try_adapt_domain_impl() on a component whose curve has these
\* splines.
attribute_try_adapt_domain_impl(splines, va, from, to) ==
  IF AdaptReturnsAbsent(va) THEN NoVArray
  ELSE IF from = to THEN va
  ELSE IF from = ATTR_DOMAIN_POINT /\ to = ATTR_DOMAIN_CURVE
    THEN adapt_curve_domain_point_to_spline(splines, va)
  ELSE IF from = ATTR_DOMAIN_CURVE /\ to = ATTR_DOMAIN_POINT
    THEN adapt_curve_domain_spline_to_point(splines, va)
  ELSE NoVArray

\* Whether that call reads through curve_ (*curve_ in the two conversions).
AdaptReadsCurve(va, from, to) ==
  /\ ~AdaptReturnsAbsent(va)
  /\ from # to
  /\ \/ from = ATTR_DOMAIN_POINT /\ to = ATTR_DOMAIN_CURVE
     \/ from = ATTR_DOMAIN_CURVE /\ to = ATTR_DOMAIN_POINT

\* The attribute API is not in use.
NoLooked == [index |-> -1, spline_index |-> -1, point_index |-> -1]
NoLookup == [kind |-> "absent", name |-> "none", domain |-> "none",
             curve |-> NULL, offsets |-> <<>>, tag_modified_fn |-> FALSE]
NoAccess == [index |-> -1, value |-> 0]

(***************************************************************************)
(* Per-spline storage behind the point and spline attributes.              *)
(***************************************************************************)
\* Spline::mark_cache_invalid()
mark_cache_invalid(spline) == [spline EXCEPT !.cache_valid = FALSE]

\* get_span_ / get_mutable_span_ of the builtin point providers, and the
\* layer span of "id" and of a dynamic attribute (empty when the spline has
\* no such layer).
SpanOf(spline, name) ==
  CASE name = "position" -> spline.positions
    [] name = "radius" -> spline.radii
    [] name = "tilt" -> spline.tilts
    [] OTHER -> spline.attributes[name].data

\* span[point_index] = value on that storage.
SetSpanAt(spline, name, point_index, value) ==
  CASE name = "position" -> [spline EXCEPT !.positions[point_index + 1] = value]
    [] name = "radius" -> [spline EXCEPT !.radii[point_index + 1] = value]
    [] name = "tilt" -> [spline EXCEPT !.tilts[point_index + 1] = value]
    [] OTHER -> [spline EXCEPT !.attributes[name].data[point_index + 1] = value]

\* span.copy_from(values) on that storage: as many elements as the span has
\* are copied from the start of values.
CopyToSpan(spline, name, values) ==
  LET copied == [k \in 1..Len(SpanOf(spline, name)) |-> values[k]]
  IN CASE name = "position" -> [spline EXCEPT !.positions = copied]
       [] name = "radius" -> [spline EXCEPT !.radii = copied]
       [] name = "tilt" -> [spline EXCEPT !.tilts = copied]
       [] OTHER -> [spline EXCEPT !.attributes[name].data = copied]

\* src.slice(start, size)
Slice(src, start, size) == [k \in 1..size |-> src[start + k]]

Max(a, b) == IF a >= b THEN a ELSE b

\* BezierSpline::set_resolution / NURBSpline::set_resolution: store the
\* value and drop the evaluated cache.
set_resolution(spline, value) ==
  [spline EXCEPT !.resolution = value, !.cache_valid = FALSE]

get_spline_resolution(spline) ==
  IF spline.type = CURVE_TYPE_BEZIER THEN spline.resolution
  ELSE IF spline.type = CURVE_TYPE_NURBS THEN spline.resolution
  ELSE 1

\* A resolution stored as requested, without the floor.
ClampedResolution_NoFloor(resolution) == resolution

\* The value set_spline_resolution() stores for a requested resolution.
ClampedResolution(resolution) == Max(resolution, 1)

set_spline_resolution(spline, resolution) ==
  IF spline.type \in {CURVE_TYPE_BEZIER, CURVE_TYPE_NURBS}
    THEN set_resolution(spline, ClampedResolution(resolution))
    ELSE spline

get_cyclic_value(spline) == spline.is_cyclic

set_cyclic_value(spline, value) ==
  IF spline.is_cyclic # value
    THEN mark_cache_invalid([spline EXCEPT !.is_cyclic = value])
    ELSE spline

(***************************************************************************)
(* Attribute providers: try_get_for_write.                                 *)
(***************************************************************************)
BuiltinPointNames == {"position", "radius", "tilt", "id"}
BezierHandleNames == {"handle_left", "handle_right"}
BuiltinSplineNames == {"resolution", "cyclic"}
BuiltinNames == BuiltinPointNames \cup BezierHandleNames \cup BuiltinSplineNames

\* stored_in_custom_data_ of the builtin point providers.
stored_in_custom_data(name) == name = "id"

\* Providers of which only the tilt provider has an update_on_write_.
HasUpdateOnWrite_TiltOnly(name) == name = "tilt"

\* update_on_write_ of the builtin point providers is set for these.
HasUpdateOnWrite(name) == name \in {"position", "tilt"}

MakeLookup(kind, name, domain, curve, offsets, tag) ==
  [kind |-> kind, name |-> name, domain |-> domain, curve |-> curve,
   offsets |-> offsets, tag_modified_fn |-> tag]

\* BuiltinPointAttributeProvider::exists on a component holding a curve.
BuiltinPointExists(splines, name) ==
  IF Len(splines) = 0 THEN FALSE
  ELSE IF stored_in_custom_data(name) /\ splines[1].attributes[name].type = "none"
    THEN FALSE
  ELSE \E k \in 1..Len(splines) : splines[k].size # 0

\* BuiltinPointAttributeProvider::try_get_for_write, after get_for_write().
BuiltinPointWriteLookup(curve, splines, name) ==
  IF ~BuiltinPointExists(splines, name) THEN NoLookup
  ELSE IF Len(splines) = 1
    THEN MakeLookup("Span", name, ATTR_DOMAIN_POINT, curve, <<>>,
                    HasUpdateOnWrite(name))
  ELSE MakeLookup("SplinePoints", name, ATTR_DOMAIN_POINT, curve,
                  control_point_offsets(splines), HasUpdateOnWrite(name))

\* PositionAttributeProvider::try_get_for_write, after get_for_write().
PositionWriteLookup(curve, splines) ==
  IF ~has_spline_with_type(splines, CURVE_TYPE_BEZIER)
    THEN BuiltinPointWriteLookup(curve, splines, "position")
    ELSE MakeLookup("SplinePosition", "position", ATTR_DOMAIN_POINT, curve,
                    control_point_offsets(splines), TRUE)

\* A handle lookup that is made whatever the kinds of the splines are.
BezierHandleWriteLookup_NoTypeCheck(curve, splines, name) ==
  MakeLookup("BezierHandles", name, ATTR_DOMAIN_POINT, curve,
             control_point_offsets(splines), TRUE)

\* BezierHandleAttributeProvider::try_get_for_write, after get_for_write().
BezierHandleWriteLookup(curve, splines, name) ==
  IF ~has_spline_with_type(splines, CURVE_TYPE_BEZIER)
    THEN NoLookup
    ELSE MakeLookup("BezierHandles", name, ATTR_DOMAIN_POINT, curve,
                    control_point_offsets(splines), TRUE)

\* BuiltinSplineAttributeProvider::try_get_for_write, after get_for_write().
BuiltinSplineWriteLookup(curve, splines, name) ==
  MakeLookup("DerivedSpan", name, ATTR_DOMAIN_CURVE, curve, <<>>, FALSE)

\* A dynamic lookup that looks for the slot on the first spline only.
DynamicPointWriteLookup_FirstOnly(curve, splines, name) ==
  IF Len(splines) = 0 THEN NoLookup
  ELSE IF splines[1].attributes[name].type = "none" THEN NoLookup
  ELSE IF Len(splines) = 1
    THEN MakeLookup("Span", name, ATTR_DOMAIN_POINT, curve, <<>>, FALSE)
  ELSE MakeLookup("SplinePoints", name, ATTR_DOMAIN_POINT, curve,
                  control_point_offsets(splines), FALSE)

\* DynamicPointAttributeProvider::try_get_for_write, after get_for_write().
DynamicPointWriteLookup(curve, splines, name) ==
  IF Len(splines) = 0 THEN NoLookup
  ELSE IF splines[1].attributes[name].type = "none" THEN NoLookup
  ELSE IF \E i \in 2..Len(splines) :
            \/ splines[i].attributes[name].type = "none"
            \/ splines[i].attributes[name].type # splines[i - 1].attributes[name].type
    THEN NoLookup
  ELSE IF Len(splines) = 1
    THEN MakeLookup("Span", name, ATTR_DOMAIN_POINT, curve, <<>>, FALSE)
  ELSE MakeLookup("SplinePoints", name, ATTR_DOMAIN_POINT, curve,
                  control_point_offsets(splines), FALSE)

\* The provider the component asks for a name: the builtin one of that
\* name, else the dynamic point provider (the curve itself carries no
\* custom data layer, so the spline custom data provider finds nothing).
WriteLookupFor(curve, splines, name) ==
  IF name = "position" THEN PositionWriteLookup(curve, splines)
  ELSE IF name \in BuiltinPointNames THEN BuiltinPointWriteLookup(curve, splines, name)
  ELSE IF name \in BezierHandleNames THEN BezierHandleWriteLookup(curve, splines, name)
  ELSE IF name \in BuiltinSplineNames THEN BuiltinSplineWriteLookup(curve, splines, name)
  ELSE DynamicPointWriteLookup(curve, splines, name)

LookupPresent(lk) == lk.kind # "absent"

(***************************************************************************)
(* The mutable virtual arrays behind a lookup.                             *)
(***************************************************************************)
\* The handle span VArrayImpl_For_BezierHandles reads and writes (is_right_).
HandleSpan(spline, name) ==
  IF name = "handle_right"
    THEN spline.handle_positions_right
    ELSE spline.handle_positions_left

\* A handle write that ignores is_right_ and always stores the left handle.
SetHandleAt_AlwaysLeft(spline, name, point_index, value) ==
  [spline EXCEPT !.handle_positions_left[point_index + 1] = value]

SetHandleAt(spline, name, point_index, value) ==
  IF name = "handle_right"
    THEN [spline EXCEPT !.handle_positions_right[point_index + 1] = value]
    ELSE [spline EXCEPT !.handle_positions_left[point_index + 1] = value]

\* size() of the virtual array of a lookup.
LookupSize(splines, lk) ==
  CASE lk.kind = "Span" -> Len(SpanOf(splines[1], lk.name))
    [] lk.kind = "DerivedSpan" -> Len(splines)
    [] OTHER -> Last(lk.offsets)

\* VArrayImpl_For_SplinePoints::get
SplinePointsGet(splines, lk, index) ==
  LET indices == lookup_point_indices(lk.offsets, index)
  IN At(SpanOf(At(splines, indices.spline_index), lk.name), indices.point_index)

\* VArrayImpl_For_SplinePosition::get
SplinePositionGet(splines, lk, index) ==
  LET indices == lookup_point_indices(lk.offsets, index)
  IN At(At(splines, indices.spline_index).positions, indices.point_index)

\* VArrayImpl_For_BezierHandles::get
BezierHandlesGet(splines, lk, index) ==
  LET indices == lookup_point_indices(lk.offsets, index)
      spline == At(splines, indices.spline_index)
  IN IF spline.type = CURVE_TYPE_BEZIER
       THEN At(HandleSpan(spline, lk.name), indices.point_index)
       ELSE Float(0)

\* ForDerivedSpan<SplinePtr, GetFunc>: get(index) is GetFunc(splines[index]).
DerivedSpanGet(splines, lk, index) ==
  IF lk.name = "resolution"
    THEN get_spline_resolution(At(splines, index))
    ELSE get_cyclic_value(At(splines, index))

LookupGet(splines, lk, index) ==
  CASE lk.kind = "Span" -> At(SpanOf(splines[1], lk.name), index)
    [] lk.kind = "SplinePoints" -> SplinePointsGet(splines, lk, index)
    [] lk.kind = "SplinePosition" -> SplinePositionGet(splines, lk, index)
    [] lk.kind = "BezierHandles" -> BezierHandlesGet(splines, lk, index)
    [] lk.kind = "DerivedSpan" -> DerivedSpanGet(splines, lk, index)

\* VArrayImpl_For_SplinePoints::set
SplinePointsSet(splines, lk, index, value) ==
  LET indices == lookup_point_indices(lk.offsets, index)
  IN [splines EXCEPT ![indices.spline_index + 1] =
        SetSpanAt(@, lk.name, indices.point_index, value)]

\* VArrayImpl_For_SplinePosition::set
SplinePositionSet(splines, lk, index, value) ==
  LET indices == lookup_point_indices(lk.offsets, index)
  IN [splines EXCEPT ![indices.spline_index + 1] =
        [@ EXCEPT !.positions[indices.point_index + 1] = value]]

\* A handle write that leaves the evaluated cache of the spline valid.
BezierHandlesSet_NoInvalidate(splines, lk, index, value) ==
  LET indices == lookup_point_indices(lk.offsets, index)
      spline == At(splines, indices.spline_index)
  IN IF spline.type = CURVE_TYPE_BEZIER
       THEN [splines EXCEPT ![indices.spline_index + 1] =
               SetHandleAt(@, lk.name, indices.point_index, value)]
       ELSE splines

\* VArrayImpl_For_BezierHandles::set
BezierHandlesSet(splines, lk, index, value) ==
  LET indices == lookup_point_indices(lk.offsets, index)
      spline == At(splines, indices.spline_index)
  IN IF spline.type = CURVE_TYPE_BEZIER
       THEN [splines EXCEPT ![indices.spline_index + 1] =
               mark_cache_invalid(SetHandleAt(@, lk.name, indices.point_index, value))]
       ELSE splines

\* ForDerivedSpan<SplinePtr, GetFunc, SetFunc>: set(index, value) is
\* SetFunc(splines[index], value).
DerivedSpanSet(splines, lk, index, value) ==
  IF lk.name = "resolution"
    THEN [splines EXCEPT ![index + 1] = set_spline_resolution(@, value)]
    ELSE [splines EXCEPT ![index + 1] = set_cyclic_value(@, value)]

LookupSet(splines, lk, index, value) ==
  CASE lk.kind = "Span" ->
         [splines EXCEPT ![1] = SetSpanAt(@, lk.name, index, value)]
    [] lk.kind = "SplinePoints" -> SplinePointsSet(splines, lk, index, value)
    [] lk.kind = "SplinePosition" -> SplinePositionSet(splines, lk, index, value)
    [] lk.kind = "BezierHandles" -> BezierHandlesSet(splines, lk, index, value)
    [] lk.kind = "DerivedSpan" -> DerivedSpanSet(splines, lk, index, value)

\* VArrayImpl_For_SplinePoints::set_all
SplinePointsSetAll(splines, lk, src) ==
  [k \in 1..Len(splines) |->
     LET offset == At(lk.offsets, k - 1)
         next_offsets == At(lk.offsets, k)
     IN CopyToSpan(splines[k], lk.name, Slice(src, offset, next_offsets - offset))]

\* VArrayImpl_For_SplinePosition::set_all
SplinePositionSetAll(splines, lk, src) ==
  [k \in 1..Len(splines) |->
     LET offset == At(lk.offsets, k - 1)
         next_offset == At(lk.offsets, k)
     IN CopyToSpan(splines[k], "position", Slice(src, offset, next_offset - offset))]

\* VArrayImpl_For_BezierHandles::set_all: the Bezier splines only.
BezierHandlesSetAll(splines, lk, src) ==
  [k \in 1..Len(splines) |->
     IF splines[k].type = CURVE_TYPE_BEZIER
       THEN LET offset == At(lk.offsets, k - 1)
                values == Slice(src, offset, splines[k].size)
            IN mark_cache_invalid(
                 IF lk.name = "handle_right"
                   THEN [splines[k] EXCEPT !.handle_positions_right = values]
                   ELSE [splines[k] EXCEPT !.handle_positions_left = values])
       ELSE splines[k]]

\* set_all(src) on a span lookup, a per-spline span lookup, a position
\* lookup or a handle lookup.
LookupSetAll(splines, lk, src) ==
  CASE lk.kind = "Span" -> [splines EXCEPT ![1] = CopyToSpan(@, lk.name, src)]
    [] lk.kind = "BezierHandles" -> BezierHandlesSetAll(splines, lk, src)
    [] lk.kind = "SplinePosition" -> SplinePositionSetAll(splines, lk, src)
    [] OTHER -> SplinePointsSetAll(splines, lk, src)

(***************************************************************************)
(* materialize and materialize_to_uninitialized of the virtual arrays.     *)
(* A destination buffer keeps, per index, how often it was written and     *)
(* the value written last.                                                 *)
(***************************************************************************)
\* A destination buffer nothing was written to yet.
FreshBuffer(size) == [i \in 1..size |-> [writes |-> 0, value |-> <<>>]]

\* r_span[index] = value
WriteCell(r_span, index, value) ==
  [r_span EXCEPT ![index + 1] = [writes |-> @.writes + 1, value |-> value]]

\* r_span.slice(offset, n).fill(value) / uninitialized_fill_n
RECURSIVE FillCells(_, _, _, _)
FillCells(r_span, offset, n, value) ==
  IF n <= 0
    THEN r_span
    ELSE FillCells(WriteCell(r_span, offset + n - 1, value), offset, n - 1, value)

\* r_span.slice(offset, n).copy_from(src) / uninitialized_copy_n
RECURSIVE CopyCells(_, _, _, _)
CopyCells(r_span, offset, n, src) ==
  IF n <= 0
    THEN r_span
    ELSE CopyCells(WriteCell(r_span, offset + n - 1, src[n]), offset, n - 1, src)

\* mask.is_range() && mask.as_range() == IndexRange(total_size)
IsFullRange(indices, total_size) == indices = IndexRange(total_size)

\* The first index an IndexMask visits.
Min(indices) == CHOOSE i \in indices : \A j \in indices : i <= j

\* The loop over the splines for a full range, from spline_index on: the
\* default for an empty span, a copy of the span otherwise.  A span that is
\* neither empty nor as long as its spline is copied from out of bounds.
RECURSIVE MaterializeSplines(_, _, _, _, _)
MaterializeSplines(data, offsets, spline_index, r_span, default) ==
  IF spline_index >= Len(data)
    THEN [dst |-> r_span, cursor |-> 0, ub |-> FALSE]
    ELSE LET offset == At(offsets, spline_index)
             next_offset == At(offsets, spline_index + 1)
             src == At(data, spline_index)
         IN IF Len(src) = 0
              THEN MaterializeSplines(data, offsets, spline_index + 1,
                     FillCells(r_span, offset, next_offset - offset, default), default)
            ELSE IF Len(src) # next_offset - offset
              THEN [dst |-> r_span, cursor |-> 0, ub |-> TRUE]
            ELSE MaterializeSplines(data, offsets, spline_index + 1,
                   CopyCells(r_span, offset, next_offset - offset, src), default)

\* A cursor that steps over at most one spline per masked index.
SkipSplines_OneStep(offsets, spline_index, dst_index) ==
  IF spline_index + 1 < Len(offsets) /\ dst_index >= At(offsets, spline_index + 1)
    THEN spline_index + 1
    ELSE spline_index

\* while (dst_index >= offsets[spline_index + 1]) spline_index++;  (the
\* loop cannot run off the table for an index below offsets.last())
RECURSIVE SkipSplines(_, _, _)
SkipSplines(offsets, spline_index, dst_index) ==
  IF spline_index + 1 < Len(offsets) /\ dst_index >= At(offsets, spline_index + 1)
    THEN SkipSplines(offsets, spline_index + 1, dst_index)
    ELSE spline_index

\* The loop over the indices of a mask that is not the full range.
RECURSIVE MaterializeMask(_, _, _, _, _, _)
MaterializeMask(data, offsets, indices, cursor_in, r_span, default) ==
  IF indices = {}
    THEN [dst |-> r_span, cursor |-> cursor_in, ub |-> FALSE]
    ELSE LET dst_index == Min(indices)
             spline_index == SkipSplines(offsets, cursor_in, dst_index)
             index_in_spline == dst_index - At(offsets, spline_index)
         IN IF spline_index >= Len(data)
              THEN [dst |-> r_span, cursor |-> spline_index, ub |-> TRUE]
            ELSE IF Len(At(data, spline_index)) = 0
              THEN MaterializeMask(data, offsets, indices \ {dst_index}, spline_index,
                                   WriteCell(r_span, dst_index, default), default)
            ELSE IF index_in_spline >= Len(At(data, spline_index))
              THEN [dst |-> r_span, cursor |-> spline_index, ub |-> TRUE]
            ELSE MaterializeMask(data, offsets, indices \ {dst_index}, spline_index,
                   WriteCell(r_span, dst_index,
                             At(At(data, spline_index), index_in_spline)),
                   default)

point_attribute_materialize(data, offsets, indices, r_span, default) ==
  IF IsFullRange(indices, Last(offsets))
    THEN MaterializeSplines(data, offsets, 0, r_span, default)
    ELSE MaterializeMask(data, offsets, indices, 0, r_span, default)

point_attribute_materialize_to_uninitialized(data, offsets, indices, r_span, default) ==
  IF IsFullRange(indices, Last(offsets))
    THEN MaterializeSplines(data, offsets, 0, r_span, default)
    ELSE MaterializeMask(data, offsets, indices, 0, r_span, default)

\* VArray_For_SplineToPoint, full range: one fill per entry of original_data_.
RECURSIVE SplineToPointFill(_, _, _, _)
SplineToPointFill(original_data, offsets, spline_index, r_span) ==
  IF spline_index >= Len(original_data)
    THEN [dst |-> r_span, cursor |-> 0, ub |-> FALSE]
    ELSE LET offset == At(offsets, spline_index)
             next_offset == At(offsets, spline_index + 1)
         IN SplineToPointFill(original_data, offsets, spline_index + 1,
              FillCells(r_span, offset, next_offset - offset,
                        At(original_data, spline_index)))

\* while (offsets_[spline_index] < dst_index) spline_index++;
RECURSIVE SplineToPointAdvance(_, _, _)
SplineToPointAdvance(offsets, spline_index, dst_index) ==
  IF spline_index < Len(offsets) /\ At(offsets, spline_index) < dst_index
    THEN SplineToPointAdvance(offsets, spline_index + 1, dst_index)
    ELSE spline_index

\* VArray_For_SplineToPoint, any other mask.  original_data_[spline_index]
\* past the last entry is a read out of bounds: it yields `garbage`.
RECURSIVE SplineToPointMask(_, _, _, _, _, _, _)
SplineToPointMask(original_data, offsets, indices, cursor_in, r_span, garbage, ub_in) ==
  IF indices = {}
    THEN [dst |-> r_span, cursor |-> cursor_in, ub |-> ub_in]
    ELSE LET dst_index == Min(indices)
             spline_index == SplineToPointAdvance(offsets, cursor_in, dst_index)
             in_bounds == spline_index < Len(original_data)
             value == IF in_bounds THEN At(original_data, spline_index) ELSE garbage
         IN SplineToPointMask(original_data, offsets, indices \ {dst_index},
                              spline_index, WriteCell(r_span, dst_index, value),
                              garbage, ub_in \/ ~in_bounds)

\* VArray_For_SplineToPoint::materialize and ::materialize_to_uninitialized
SplineToPointMaterialize(va, indices, r_span, garbage) ==
  IF IsFullRange(indices, Last(va.offsets))
    THEN SplineToPointFill(va.data, va.offsets, 0, r_span)
    ELSE SplineToPointMask(va.data, va.offsets, indices, 0, r_span, garbage, FALSE)

\* VArrayImpl_For_BezierHandles::get_handle_spans
get_handle_spans(splines, name) ==
  [k \in 1..Len(splines) |->
     IF splines[k].type = CURVE_TYPE_BEZIER THEN HandleSpan(splines[k], name) ELSE <<>>]

\* VArrayImpl_For_SplinePosition::get_position_spans
get_position_spans(splines) == [k \in 1..Len(splines) |-> splines[k].positions]

\* The spans a per-spline virtual array hands to the materialize functions.
LookupSpans(splines, lk) ==
  CASE lk.kind = "BezierHandles" -> get_handle_spans(splines, lk.name)
    [] lk.kind = "SplinePosition" -> get_position_spans(splines)
    [] OTHER -> [k \in 1..Len(splines) |-> SpanOf(splines[k], lk.name)]

\* materialize / materialize_to_uninitialized of the virtual array of a lookup.
LookupMaterialize(splines, lk, indices, r_span, uninitialized) ==
  IF uninitialized
    THEN point_attribute_materialize_to_uninitialized(
           LookupSpans(splines, lk), lk.offsets, indices, r_span,
           DefaultValue(LayerType(lk.name)))
    ELSE point_attribute_materialize(
           LookupSpans(splines, lk), lk.offsets, indices, r_span,
           DefaultValue(LayerType(lk.name)))

\* get(index) of VArrayImpl_For_SplinePoints reads data_[s][p] unchecked.
GetReadsOutOfBounds(splines, lk, index) ==
  /\ lk.kind = "SplinePoints"
  /\ LET indices == lookup_point_indices(lk.offsets, index)
     IN indices.point_index >=
          Len(SpanOf(At(splines, indices.spline_index), lk.name))

(***************************************************************************)
(* The heap of CurveEval objects.                                          *)
(***************************************************************************)
\* The content of a curve in the lifecycle model: one abstract value.
CurveContents == {<<"a">>, <<"b">>}

FreeSlot == [st |-> "free", splines |-> <<>>]
DeletedSlot == [st |-> "deleted", splines |-> <<>>]

EmptyHeap == [c \in CurveIds |-> FreeSlot]

FreeIds(h) == {c \in CurveIds : h[c].st = "free"}
LiveIds(h) == {c \in CurveIds : h[c].st = "live"}

\* operator new: the first unused address.
NewId(h) == CHOOSE c \in FreeIds(h) : \A d \in FreeIds(h) : c <= d

\* new CurveEval with the given content.
Alloc(h, content) == [h EXCEPT ![NewId(h)] = [st |-> "live", splines |-> content]]

\* new CurveEval(*src): the copy constructor, a deep copy of the splines.
CloneCurve(h, src) == Alloc(h, h[src].splines)

\* delete curve.
DeleteCurve(h, c) == [h EXCEPT ![c] = DeletedSlot]

NoRender == [id |-> NULL, curve_eval |-> NULL]

IdleThreads == [t \in Threads |-> "idle"]
NoReturns == [t \in Threads |-> NULL]
NoCalls == [t \in Threads |-> 0]

\* What a try_create / try_delete call leaves: the value it returned, the
\* spline whose slot table refused the new slot (-1: none did), and the
\* arguments of the call.
NoResult == [value |-> FALSE, refused |-> -1, name |-> "none", domain |-> "none",
             type |-> "none", initializer |-> "none"]

\* What copy() returns: a new component with its curve_ and ownership_
\* (made: whether copy() was called at all).
NoComponent == [made |-> FALSE, curve_ |-> NULL, ownership_ |-> Owned]

\* No materialize, try_create, try_delete or copy call was made.
BulkIdle ==
  /\ mask = {}
  /\ dst = <<>>
  /\ cursor = 0
  /\ result = NoResult
  /\ new_component = NoComponent

IoIdle ==
  /\ varray = NoVArray
  /\ from_domain = ATTR_DOMAIN_POINT
  /\ to_domain = ATTR_DOMAIN_POINT
  /\ adapted = NoVArray
  /\ looked = NoLooked
  /\ lookup = NoLookup
  /\ written = NoAccess
  /\ got = NoAccess
  /\ phase = "idle"
  /\ BulkIdle

(***************************************************************************)
(* CurveComponent: construction, clear, replace, release, copy-on-write.   *)
(***************************************************************************)
Init ==
  /\ curve_ = NULL
  /\ ownership_ = Owned
  /\ curve_for_render_ = NoRender
  /\ heap = EmptyHeap
  /\ op = "new"
  /\ ret = NULL
  /\ crashed = FALSE
  /\ builds = 0
  /\ pc = IdleThreads
  /\ mutex = NULL
  /\ tret = NoReturns
  /\ calls = NoCalls
  /\ IoIdle

\* A clear() that deletes the curve whatever the ownership tag says.
ClearedHeap_AnyOwnership ==
  IF curve_ # NULL THEN DeleteCurve(heap, curve_) ELSE heap

\* The body of clear(): what it leaves in curve_, curve_for_render_ and the heap.
ClearedHeap ==
  IF curve_ # NULL /\ ownership_ = Owned THEN DeleteCurve(heap, curve_) ELSE heap

ClearedRender ==
  IF curve_ # NULL THEN NoRender ELSE curve_for_render_

Clear ==
  /\ ~crashed
  /\ heap' = ClearedHeap
  /\ curve_for_render_' = ClearedRender
  /\ curve_' = NULL
  /\ op' = "clear"
  /\ ret' = NULL
  /\ UNCHANGED <<ownership_, crashed, builds>>
  /\ UNCHANGED threadVars
  /\ UNCHANGED ioVars
  /\ UNCHANGED bulkVars

\* replace(curve, ownership) with a curve the caller already holds (or nullptr).
Replace(curve, ownership) ==
  /\ ~crashed
  /\ curve \in LiveIds(heap) \cup {NULL}
  /\ ~(curve # NULL /\ curve = curve_ /\ ownership_ = Owned)
  /\ heap' = ClearedHeap
  /\ curve_for_render_' = ClearedRender
  /\ curve_' = curve
  /\ ownership_' = ownership
  /\ op' = "replace"
  /\ ret' = NULL
  /\ UNCHANGED <<crashed, builds>>
  /\ UNCHANGED threadVars
  /\ UNCHANGED ioVars
  /\ UNCHANGED bulkVars

\* replace(new CurveEval(...), ownership): the caller builds the curve first.
ReplaceNew(content, ownership) ==
  /\ ~crashed
  /\ FreeIds(heap) # {}
  /\ heap' = Alloc(ClearedHeap, content)
  /\ curve_for_render_' = ClearedRender
  /\ curve_' = NewId(ClearedHeap)
  /\ ownership_' = ownership
  /\ op' = "replace"
  /\ ret' = NULL
  /\ UNCHANGED <<crashed, builds>>
  /\ UNCHANGED threadVars
  /\ UNCHANGED ioVars
  /\ UNCHANGED bulkVars

Release ==
  /\ ~crashed
  /\ ret' = curve_
  /\ curve_' = NULL
  /\ op' = "release"
  /\ UNCHANGED <<ownership_, curve_for_render_, heap, crashed, builds>>
  /\ UNCHANGED threadVars
  /\ UNCHANGED ioVars
  /\ UNCHANGED bulkVars

\* The copy-on-write step shared by get_for_write() and
\* ensure_owns_direct_data(): taken when the tag asks for a copy.
CopyBeforeWrite ==
  IF curve_ = NULL
    THEN /\ crashed' = TRUE
         /\ UNCHANGED <<curve_, ownership_, heap>>
    ELSE /\ FreeIds(heap) # {}
         /\ heap' = CloneCurve(heap, curve_)
         /\ curve_' = NewId(heap)
         /\ ownership_' = Owned
         /\ UNCHANGED crashed

\* A get_for_write() that copies the curve it owns instead of the one it
\* borrows.
GetForWriteNeedsCopy_Inverted == ownership_ = Owned

GetForWriteNeedsCopy == ownership_ = ReadOnly

GetForWrite ==
  /\ ~crashed
  /\ IF GetForWriteNeedsCopy
       THEN CopyBeforeWrite
       ELSE UNCHANGED <<curve_, ownership_, heap, crashed>>
  /\ ret' = IF crashed' THEN NULL ELSE curve_'
  /\ op' = "get_for_write"
  /\ UNCHANGED <<curve_for_render_, builds>>
  /\ UNCHANGED threadVars
  /\ UNCHANGED ioVars
  /\ UNCHANGED bulkVars

owns_direct_data == ownership_ = Owned

EnsureOwnsDirectData ==
  /\ ~crashed
  /\ IF ownership_ # Owned
       THEN CopyBeforeWrite
       ELSE UNCHANGED <<curve_, ownership_, heap, crashed>>
  /\ ret' = NULL
  /\ op' = "ensure_owns_direct_data"
  /\ UNCHANGED <<curve_for_render_, builds>>
  /\ UNCHANGED threadVars
  /\ UNCHANGED ioVars
  /\ UNCHANGED bulkVars

\* get_curve_for_render() called with no other thread inside it.
GetCurveForRender ==
  /\ ~crashed
  /\ IF curve_ = NULL
       THEN /\ ret' = NULL
            /\ UNCHANGED <<curve_for_render_, builds>>
       ELSE IF curve_for_render_.id # NULL
         THEN /\ ret' = curve_for_render_.id
              /\ UNCHANGED <<curve_for_render_, builds>>
         ELSE /\ builds < MaxRenders
              /\ builds' = builds + 1
              /\ curve_for_render_' = [id |-> builds + 1, curve_eval |-> curve_]
              /\ ret' = builds + 1
  /\ op' = "get_curve_for_render"
  /\ UNCHANGED <<curve_, ownership_, heap, crashed>>
  /\ UNCHANGED threadVars
  /\ UNCHANGED ioVars
  /\ UNCHANGED bulkVars

Next ==
  \/ Clear
  \/ \E c \in CurveIds \cup {NULL}, o \in GeometryOwnershipType : Replace(c, o)
  \/ \E k \in CurveContents, o \in GeometryOwnershipType : ReplaceNew(k, o)
  \/ Release
  \/ GetForWrite
  \/ EnsureOwnsDirectData
  \/ GetCurveForRender

Spec == Init /\ [][Next]_vars

\* The calls that set or use the ownership tag, replace() always with a
\* curve.
NextOwn ==
  \/ Clear
  \/ \E c \in CurveIds, o \in GeometryOwnershipType : Replace(c, o)
  \/ \E k \in CurveContents, o \in GeometryOwnershipType : ReplaceNew(k, o)
  \/ Release
  \/ GetForWrite
  \/ EnsureOwnsDirectData

SpecOwn == Init /\ [][NextOwn]_vars

(***************************************************************************)
(* The life of a component and of a copy of it: copy(), the destructor,    *)
(* and the destruction of the copy by the caller that got it.              *)
(***************************************************************************)
\* The component has not been destroyed.
Alive == op # "~CurveComponent"

\* copy(): a new component; when this one holds a curve the new one gets a
\* deep clone of it and owns it.
Copy ==
  /\ ~crashed
  /\ Alive
  /\ IF curve_ # NULL
       THEN /\ FreeIds(heap) # {}
            /\ heap' = CloneCurve(heap, curve_)
            /\ new_component' = [made |-> TRUE, curve_ |-> NewId(heap),
                                 ownership_ |-> Owned]
       ELSE /\ UNCHANGED heap
            /\ new_component' = [made |-> TRUE, curve_ |-> NULL, ownership_ |-> Owned]
  /\ op' = "copy"
  /\ ret' = NULL
  /\ UNCHANGED <<curve_, ownership_, curve_for_render_, crashed, builds>>
  /\ UNCHANGED threadVars
  /\ UNCHANGED ioVars
  /\ UNCHANGED <<mask, dst, cursor, result>>

\* ~CurveComponent(): clear().  No member function runs after it.
Destroy ==
  /\ ~crashed
  /\ Alive
  /\ heap' = ClearedHeap
  /\ curve_for_render_' = ClearedRender
  /\ curve_' = NULL
  /\ op' = "~CurveComponent"
  /\ ret' = NULL
  /\ UNCHANGED <<ownership_, crashed, builds>>
  /\ UNCHANGED threadVars
  /\ UNCHANGED ioVars
  /\ UNCHANGED bulkVars

\* The caller deletes the component copy() returned: its destructor clears
\* it, which deletes the clone it owns.
DeleteCopy ==
  /\ ~crashed
  /\ new_component.made
  /\ heap' = IF new_component.curve_ # NULL /\ new_component.ownership_ = Owned
               THEN DeleteCurve(heap, new_component.curve_)
               ELSE heap
  /\ new_component' = NoComponent
  /\ op' = "delete copy"
  /\ ret' = NULL
  /\ UNCHANGED <<curve_, ownership_, curve_for_render_, crashed, builds>>
  /\ UNCHANGED threadVars
  /\ UNCHANGED ioVars
  /\ UNCHANGED <<mask, dst, cursor, result>>

\* The calls of a caller that passes to replace() only a curve no component
\* owns.
NextLife ==
  \/ Alive /\ Clear
  \/ \E c \in CurveIds \cup {NULL}, o \in GeometryOwnershipType :
       /\ Alive
       /\ c = NULL \/ c # new_component.curve_
       /\ Replace(c, o)
  \/ \E k \in CurveContents, o \in GeometryOwnershipType : Alive /\ ReplaceNew(k, o)
  \/ Alive /\ Release
  \/ Copy
  \/ Alive /\ GetForWrite
  \/ Alive /\ EnsureOwnsDirectData
  \/ Destroy
  \/ DeleteCopy

SpecLife == Init /\ [][NextLife]_vars

(***************************************************************************)
(* get_curve_for_render() step by step, one thread per caller.             *)
(***************************************************************************)
InitRender ==
  /\ curve_ \in {NULL, 1}
  /\ ownership_ \in GeometryOwnershipType
  /\ curve_for_render_ = NoRender
  /\ heap \in {Alloc(EmptyHeap, k) : k \in CurveContents}
  /\ op = "new"
  /\ ret = NULL
  /\ crashed = FALSE
  /\ builds = 0
  /\ pc = IdleThreads
  /\ mutex = NULL
  /\ tret = NoReturns
  /\ calls = NoCalls
  /\ IoIdle

\* return value; from a thread holding the lock_guard this also unlocks.
RenderReturn(t, value) ==
  /\ tret' = [tret EXCEPT ![t] = value]
  /\ pc' = [pc EXCEPT ![t] = "idle"]
  /\ mutex' = IF mutex = t THEN NULL ELSE mutex

RenderCall(t) ==
  /\ pc[t] = "idle"
  /\ calls[t] < MaxCalls
  /\ calls' = [calls EXCEPT ![t] = @ + 1]
  /\ pc' = [pc EXCEPT ![t] = "L120"]
  /\ UNCHANGED <<mutex, tret>>
  /\ UNCHANGED compVars
  /\ UNCHANGED ioVars
  /\ UNCHANGED bulkVars

\* if (curve_ == nullptr) return nullptr;
RenderCheckCurve(t) ==
  /\ pc[t] = "L120"
  /\ IF curve_ = NULL
       THEN RenderReturn(t, NULL)
       ELSE /\ pc' = [pc EXCEPT ![t] = "L123"]
            /\ UNCHANGED <<mutex, tret>>
  /\ UNCHANGED calls
  /\ UNCHANGED compVars
  /\ UNCHANGED ioVars
  /\ UNCHANGED bulkVars

\* if (curve_for_render_ != nullptr) return curve_for_render_;  read outside
\* the lock: it races with the store of the building thread, so the load
\* gives the stored pointer or still nullptr.
RenderFastPath(t) ==
  /\ pc[t] = "L123"
  /\ \/ /\ curve_for_render_.id # NULL
        /\ RenderReturn(t, curve_for_render_.id)
     \/ /\ pc' = [pc EXCEPT ![t] = "L126"]
        /\ UNCHANGED <<mutex, tret>>
  /\ UNCHANGED calls
  /\ UNCHANGED compVars
  /\ UNCHANGED ioVars
  /\ UNCHANGED bulkVars

\* std::lock_guard lock{curve_for_render_mutex_};
RenderLock(t) ==
  /\ pc[t] = "L126"
  /\ mutex = NULL
  /\ mutex' = t
  /\ pc' = [pc EXCEPT ![t] = "L127"]
  /\ UNCHANGED <<tret, calls>>
  /\ UNCHANGED compVars
  /\ UNCHANGED ioVars
  /\ UNCHANGED bulkVars

\* Whether the holder of the lock finds the render curve already built.
\* A get_curve_for_render() that does not look again under the lock.
RenderAlreadyBuilt_NoRecheck == FALSE

RenderAlreadyBuilt == curve_for_render_.id # NULL

\* if (curve_for_render_ != nullptr) return curve_for_render_;  under the lock.
RenderRecheck(t) ==
  /\ pc[t] = "L127"
  /\ IF RenderAlreadyBuilt
       THEN RenderReturn(t, curve_for_render_.id)
       ELSE /\ pc' = [pc EXCEPT ![t] = "L131"]
            /\ UNCHANGED <<mutex, tret>>
  /\ UNCHANGED calls
  /\ UNCHANGED compVars
  /\ UNCHANGED ioVars
  /\ UNCHANGED bulkVars

\* curve_for_render_ = (Curve *)BKE_id_new_nomain(ID_CU_LEGACY, nullptr);
RenderCreate(t) ==
  /\ pc[t] = "L131"
  /\ builds' = builds + 1
  /\ curve_for_render_' = [id |-> builds + 1, curve_eval |-> NULL]
  /\ pc' = [pc EXCEPT ![t] = "L132"]
  /\ UNCHANGED <<mutex, tret, calls>>
  /\ UNCHANGED <<curve_, ownership_, heap, op, ret, crashed>>
  /\ UNCHANGED ioVars
  /\ UNCHANGED bulkVars

\* curve_for_render_->curve_eval = curve_; return curve_for_render_;
RenderBind(t) ==
  /\ pc[t] = "L132"
  /\ curve_for_render_' = [curve_for_render_ EXCEPT !.curve_eval = curve_]
  /\ RenderReturn(t, curve_for_render_.id)
  /\ UNCHANGED calls
  /\ UNCHANGED <<curve_, ownership_, heap, op, ret, crashed, builds>>
  /\ UNCHANGED ioVars
  /\ UNCHANGED bulkVars

NextRender ==
  \E t \in Threads :
    \/ RenderCall(t)
    \/ RenderCheckCurve(t)
    \/ RenderFastPath(t)
    \/ RenderLock(t)
    \/ RenderRecheck(t)
    \/ RenderCreate(t)
    \/ RenderBind(t)

SpecRender == InitRender /\ [][NextRender]_vars

(***************************************************************************)
(* Callers of the domain adapter and of lookup_point_indices().            *)
(***************************************************************************)
\* Bounds on the curves the adapter is run on.
MaxSplines == 3
MaxPoints == 4

\* Sample values of the two attribute types the adapter is run on.
BoolValues == {FALSE, TRUE}
FloatValues == {Float(0), Float(1), Float(3)}

\* All sequences of at most MaxSplines spline sizes with at most MaxPoints
\* points in total.
RECURSIVE SizeLists(_, _)
SizeLists(len, total) ==
  IF len = 0
    THEN {<<>>}
    ELSE UNION {{<<first>> \o rest : rest \in SizeLists(len - 1, total - first)} :
                first \in 0..total}

SplineSizeLists == UNION {SizeLists(len, MaxPoints) : len \in 0..MaxSplines}

\* The curve of scenario A of the specification, and its point values.
ScenarioSizes == <<3, 2>>
ScenarioValues == <<Float(1), Float(2), Float(3), Float(4), Float(5)>>

PolyCurve(sizes) ==
  [k \in 1..Len(sizes) |-> MakeSpline(CURVE_TYPE_POLY, sizes[k], {"weight"})]

\* The arrays a caller can hold for a domain of the given size.
ArraysOfSize(n) ==
  {SpanVArray("bool", d) : d \in [1..n -> BoolValues]}
    \cup {SpanVArray("float", d) : d \in [1..n -> FloatValues]}

\* Lengths of the arrays handed in for a domain the curve has no data in.
ForeignSizes == {0, 1, 2}

InputArrays(h, c, domain) ==
  {NoVArray} \cup
    IF domain \in {ATTR_DOMAIN_POINT, ATTR_DOMAIN_CURVE}
      THEN ArraysOfSize(attribute_domain_size(h, c, domain))
      ELSE UNION {ArraysOfSize(n) : n \in ForeignSizes}

HeapWith(splines) == [EmptyHeap EXCEPT ![1] = [st |-> "live", splines |-> splines]]

InitAdaptGeneric ==
  /\ \E sizes \in SplineSizeLists : heap = HeapWith(PolyCurve(sizes))
  /\ curve_ \in {NULL, 1}
  /\ from_domain \in AttributeDomain
  /\ to_domain \in AttributeDomain
  /\ varray \in InputArrays(heap, curve_, from_domain)

InitAdaptScenario ==
  /\ heap = HeapWith(PolyCurve(ScenarioSizes))
  /\ curve_ = 1
  /\ from_domain = ATTR_DOMAIN_POINT
  /\ to_domain = ATTR_DOMAIN_CURVE
  /\ varray = SpanVArray("float", ScenarioValues)

InitAdapt ==
  /\ InitAdaptGeneric \/ InitAdaptScenario
  /\ ownership_ = Owned
  /\ curve_for_render_ = NoRender
  /\ op = "new"
  /\ ret = NULL
  /\ crashed = FALSE
  /\ builds = 0
  /\ pc = IdleThreads
  /\ mutex = NULL
  /\ tret = NoReturns
  /\ calls = NoCalls
  /\ adapted = NoVArray
  /\ looked = NoLooked
  /\ lookup = NoLookup
  /\ written = NoAccess
  /\ got = NoAccess
  /\ phase = "input"
  /\ BulkIdle

\* component.attribute_try_adapt_domain_impl(varray, from_domain, to_domain)
AdaptDomain ==
  /\ ~crashed
  /\ phase \in {"input", "read"}
  /\ IF curve_ = NULL /\ AdaptReadsCurve(varray, from_domain, to_domain)
       THEN /\ crashed' = TRUE
            /\ UNCHANGED adapted
       ELSE /\ adapted' = attribute_try_adapt_domain_impl(
                            IF curve_ = NULL THEN <<>> ELSE heap[curve_].splines,
                            varray, from_domain, to_domain)
            /\ UNCHANGED crashed
  /\ phase' = "adapted"
  /\ op' = "attribute_try_adapt_domain_impl"
  /\ UNCHANGED <<curve_, ownership_, curve_for_render_, heap, ret, builds>>
  /\ UNCHANGED threadVars
  /\ UNCHANGED bulkVars
  /\ UNCHANGED <<varray, from_domain, to_domain, looked, lookup, written, got>>

\* get(index) on the array the adapter returned.
GetAdapted(index) ==
  /\ ~crashed
  /\ phase = "adapted"
  /\ VArrayPresent(adapted)
  /\ index \in IndexRange(VArraySize(adapted))
  /\ got' = [index |-> index, value |-> VArrayGet(adapted, index)]
  /\ phase' = "got"
  /\ op' = "get"
  /\ UNCHANGED <<curve_, ownership_, curve_for_render_, heap, ret, crashed, builds>>
  /\ UNCHANGED threadVars
  /\ UNCHANGED bulkVars
  /\ UNCHANGED <<varray, from_domain, to_domain, adapted, looked, lookup, written>>

\* lookup_point_indices(curve.control_point_offsets(), index) for a point of
\* the curve.
LookupPoint(index) ==
  /\ ~crashed
  /\ phase = "input"
  /\ curve_ # NULL
  /\ index \in IndexRange(attribute_domain_size(heap, curve_, ATTR_DOMAIN_POINT))
  /\ LET found == lookup_point_indices(control_point_offsets(heap[curve_].splines), index)
     IN looked' = [index |-> index,
                   spline_index |-> found.spline_index,
                   point_index |-> found.point_index]
  /\ phase' = "looked"
  /\ op' = "lookup_point_indices"
  /\ UNCHANGED <<curve_, ownership_, curve_for_render_, heap, ret, crashed, builds>>
  /\ UNCHANGED threadVars
  /\ UNCHANGED bulkVars
  /\ UNCHANGED <<varray, from_domain, to_domain, adapted, lookup, written, got>>

(***************************************************************************)
(* The attribute API on the component: a write lookup and the accesses     *)
(* through the virtual array it returns.                                   *)
(***************************************************************************)
\* component.attribute_try_get_for_write(name): the provider gets the curve
\* with get_for_write() and builds the lookup on it.
TryGetForWrite(name) ==
  /\ ~crashed
  /\ phase = "input"
  /\ IF GetForWriteNeedsCopy
       THEN CopyBeforeWrite
       ELSE UNCHANGED <<curve_, ownership_, heap, crashed>>
  /\ lookup' = IF crashed' \/ curve_' = NULL
                 THEN NoLookup
                 ELSE WriteLookupFor(curve_', heap'[curve_'].splines, name)
  /\ phase' = "lookup"
  /\ op' = "attribute_try_get_for_write"
  /\ result' = [NoResult EXCEPT !.name = name]
  /\ UNCHANGED <<curve_for_render_, ret, builds>>
  /\ UNCHANGED threadVars
  /\ UNCHANGED <<mask, dst, cursor, new_component>>
  /\ UNCHANGED <<varray, from_domain, to_domain, adapted, looked, written, got>>

\* lookup.varray.set(index, value) by a caller that has come as far as one
\* of the given phases.  VArrayImpl_For_SplinePoints::set writes
\* data_[s][p] unchecked: past the end of the span of spline s the write
\* faults or lands outside the point data.
VArraySetFrom(phases, index, value) ==
  /\ ~crashed
  /\ phase \in phases
  /\ LookupPresent(lookup)
  /\ index \in IndexRange(LookupSize(heap[lookup.curve].splines, lookup))
  /\ IF GetReadsOutOfBounds(heap[lookup.curve].splines, lookup, index)
       THEN /\ UNCHANGED heap
            /\ crashed' \in BOOLEAN
       ELSE /\ heap' = [heap EXCEPT ![lookup.curve].splines =
                          LookupSet(heap[lookup.curve].splines, lookup, index, value)]
            /\ UNCHANGED crashed
  /\ written' = [index |-> index, value |-> value]
  /\ phase' = "set"
  /\ op' = "set"
  /\ UNCHANGED <<curve_, ownership_, curve_for_render_, ret, builds>>
  /\ UNCHANGED threadVars
  /\ UNCHANGED bulkVars
  /\ UNCHANGED <<varray, from_domain, to_domain, adapted, looked, lookup, got>>

\* The first lookup.varray.set(index, value) through a new lookup.
VArraySet(index, value) == VArraySetFrom({"lookup"}, index, value)

\* A further set(index, value) through the same lookup of a spline
\* attribute, after a write or a read.
VArraySetAgain(index, value) ==
  /\ lookup.kind = "DerivedSpan"
  /\ VArraySetFrom({"set", "get"}, index, value)

\* lookup.varray.get(index) after the write.
VArrayGetAt(index) ==
  /\ ~crashed
  /\ phase = "set"
  /\ index \in IndexRange(LookupSize(heap[lookup.curve].splines, lookup))
  /\ got' = [index |-> index,
             value |-> LookupGet(heap[lookup.curve].splines, lookup, index)]
  /\ phase' = "get"
  /\ op' = "get"
  /\ UNCHANGED <<curve_, ownership_, curve_for_render_, heap, ret, crashed, builds>>
  /\ UNCHANGED threadVars
  /\ UNCHANGED bulkVars
  /\ UNCHANGED <<varray, from_domain, to_domain, adapted, looked, lookup, written>>

\* lookup.varray.set_all(values of the caller's array).
SetAll ==
  /\ ~crashed
  /\ phase = "lookup"
  /\ LookupPresent(lookup)
  /\ lookup.kind \in {"Span", "SplinePoints", "SplinePosition", "BezierHandles"}
  /\ VArrayPresent(varray)
  /\ varray.type = LayerType(lookup.name)
  /\ from_domain = lookup.domain
  /\ VArraySize(varray) = LookupSize(heap[lookup.curve].splines, lookup)
  /\ heap' = [heap EXCEPT ![lookup.curve].splines =
                LookupSetAll(heap[lookup.curve].splines, lookup, VArrayValues(varray))]
  /\ written' = [index |-> -1, value |-> VArrayValues(varray)]
  /\ phase' = "written"
  /\ op' = "set_all"
  /\ UNCHANGED <<curve_, ownership_, curve_for_render_, ret, crashed, builds>>
  /\ UNCHANGED threadVars
  /\ UNCHANGED bulkVars
  /\ UNCHANGED <<varray, from_domain, to_domain, adapted, looked, lookup, got>>

\* lookup.tag_modified_fn(), which the caller invokes once after its writes:
\* every provider that sets it marks the cache of every spline invalid.
TagModified ==
  /\ ~crashed
  /\ phase \in {"set", "written"}
  /\ lookup.tag_modified_fn
  /\ op # "tag_modified_fn"
  /\ heap' = [heap EXCEPT ![lookup.curve].splines =
                [k \in 1..Len(@) |-> mark_cache_invalid(@[k])]]
  /\ op' = "tag_modified_fn"
  /\ UNCHANGED <<curve_, ownership_, curve_for_render_, ret, crashed, builds>>
  /\ UNCHANGED threadVars
  /\ UNCHANGED bulkVars
  /\ UNCHANGED <<varray, from_domain, to_domain, adapted, looked, lookup, written, got,
                 phase>>

\* The caller reads the attribute back with get(i) for every index and
\* holds the values as its array.
ReadAll ==
  /\ ~crashed
  /\ phase = "written"
  /\ varray' = SpanVArray(varray.type,
                 [k \in 1..LookupSize(heap[lookup.curve].splines, lookup) |->
                    LookupGet(heap[lookup.curve].splines, lookup, k - 1)])
  /\ phase' = "read"
  /\ op' = "get"
  /\ UNCHANGED <<curve_, ownership_, curve_for_render_, heap, ret, crashed, builds>>
  /\ UNCHANGED threadVars
  /\ UNCHANGED bulkVars
  /\ UNCHANGED <<from_domain, to_domain, adapted, looked, lookup, written, got>>

NextAdapt ==
  \/ TryGetForWrite("weight")
  \/ SetAll
  \/ ReadAll
  \/ AdaptDomain
  \/ \E index \in IndexRange(MaxPoints + 1) : GetAdapted(index)
  \/ \E index \in IndexRange(MaxPoints + 1) : LookupPoint(index)

SpecAdapt == InitAdapt /\ [][NextAdapt]_vars

(***************************************************************************)
(* Writable attributes of curves with typed splines: a write lookup, one   *)
(* set(i, v) through it, and a get(i) after it.                            *)
(***************************************************************************)
MaxAttrSplines == 2
MaxAttrPoints == 2

IntValues == {0, 7}
ResolutionValues == {-1, 0, 1, 3}

AttributeNames == BuiltinNames \cup {"weight"}

\* The values a caller can write to an attribute of that name.
ValuesFor(name) ==
  CASE name = "id" -> IntValues
    [] name = "resolution" -> ResolutionValues
    [] name = "cyclic" -> BoolValues
    [] OTHER -> FloatValues

\* All curves of at most MaxAttrSplines splines of any type with at most
\* MaxAttrPoints points each, every spline carrying the layers id and weight.
TypedSplines ==
  {MakeSpline(type, size, LayerNames) :
     type \in CurveTypes, size \in 0..MaxAttrPoints}

TypedCurves == UNION {[1..len -> TypedSplines] : len \in 0..MaxAttrSplines}

InitAttr ==
  /\ \E splines \in TypedCurves : heap = HeapWith(splines)
  /\ \/ curve_ = 1 /\ ownership_ \in GeometryOwnershipType
     \/ curve_ = NULL /\ ownership_ = Owned
  /\ curve_for_render_ = NoRender
  /\ op = "new"
  /\ ret = NULL
  /\ crashed = FALSE
  /\ builds = 0
  /\ pc = IdleThreads
  /\ mutex = NULL
  /\ tret = NoReturns
  /\ calls = NoCalls
  /\ varray = NoVArray
  /\ from_domain = ATTR_DOMAIN_POINT
  /\ to_domain = ATTR_DOMAIN_POINT
  /\ adapted = NoVArray
  /\ looked = NoLooked
  /\ lookup = NoLookup
  /\ written = NoAccess
  /\ got = NoAccess
  /\ phase = "input"
  /\ BulkIdle

NextAttr ==
  \/ \E name \in AttributeNames : TryGetForWrite(name)
  \/ \E index \in IndexRange(MaxAttrSplines * MaxAttrPoints) :
       \E value \in ValuesFor(lookup.name) : VArraySet(index, value)
  \/ TagModified
  \/ \E index \in IndexRange(MaxAttrSplines * MaxAttrPoints) : VArrayGetAt(index)

SpecAttr == InitAttr /\ [][NextAttr]_vars

(***************************************************************************)
(* Sequences of writes to the resolution attribute.                        *)
(***************************************************************************)
MaxResSplines == 2

\* Curves of up to MaxResSplines splines of one point each, of any kinds.
ResCurves ==
  UNION {[1..len -> {MakeSpline(type, 1, {}) : type \in CurveTypes}] :
           len \in 1..MaxResSplines}

InitRes ==
  /\ \E splines \in ResCurves : heap = HeapWith(splines)
  /\ curve_ = 1
  /\ ownership_ \in GeometryOwnershipType
  /\ curve_for_render_ = NoRender
  /\ op = "new"
  /\ ret = NULL
  /\ crashed = FALSE
  /\ builds = 0
  /\ pc = IdleThreads
  /\ mutex = NULL
  /\ tret = NoReturns
  /\ calls = NoCalls
  /\ varray = NoVArray
  /\ from_domain = ATTR_DOMAIN_CURVE
  /\ to_domain = ATTR_DOMAIN_CURVE
  /\ adapted = NoVArray
  /\ looked = NoLooked
  /\ lookup = NoLookup
  /\ written = NoAccess
  /\ got = NoAccess
  /\ phase = "input"
  /\ BulkIdle

NextRes ==
  \/ TryGetForWrite("resolution")
  \/ \E index \in IndexRange(MaxResSplines) :
       \E value \in ResolutionValues : VArraySet(index, value)
  \/ \E index \in IndexRange(MaxResSplines) :
       \E value \in ResolutionValues : VArraySetAgain(index, value)
  \/ \E index \in IndexRange(MaxResSplines) : VArrayGetAt(index)

SpecRes == InitRes /\ [][NextRes]_vars

(***************************************************************************)
(* The bulk reads: materialize and materialize_to_uninitialized on the     *)
(* virtual array of a lookup or on the broadcast array of the adapter,     *)
(* compared with get().  The point data carries distinct values so that a  *)
(* value tells which spline and point it came from.                        *)
(***************************************************************************)
MaxMatSplines == 3
MaxMatPoints == 3

\* The value of point p of spline k in the storage numbered base.
Stamp(base, k, p) == base + 10 * k + p

StampedFloats(base, k, size) == [p \in 1..size |-> Float(Stamp(base, k, p))]

\* Spline k of a curve: of the given kind and size, with or without the
\* layer id.
StampedSpline(type, size, k, has_id) ==
  [MakeSpline(type, size, {}) EXCEPT
     !.positions = StampedFloats(100, k, size),
     !.radii = StampedFloats(200, k, size),
     !.handle_positions_left =
        IF type = CURVE_TYPE_BEZIER THEN StampedFloats(300, k, size) ELSE <<>>,
     !.handle_positions_right =
        IF type = CURVE_TYPE_BEZIER THEN StampedFloats(400, k, size) ELSE <<>>,
     !.attributes["id"] =
        IF has_id
          THEN [type |-> "int", data |-> [p \in 1..size |-> Stamp(0, k, p)]]
          ELSE NoLayer]

MatSizeLists == UNION {SizeLists(len, MaxMatPoints) : len \in 1..MaxMatSplines}

\* Curves of poly and Bezier splines that all carry the layer id, and poly
\* curves of which only the first id_count splines carry it.
MatCurves ==
  UNION {{[k \in 1..Len(sizes) |->
             StampedSpline(IF k \in bezier THEN CURVE_TYPE_BEZIER ELSE CURVE_TYPE_POLY,
                           sizes[k], k, TRUE)] :
            bezier \in SUBSET (1..Len(sizes))}
           \cup
         {[k \in 1..Len(sizes) |->
             StampedSpline(CURVE_TYPE_POLY, sizes[k], k, k <= id_count)] :
            id_count \in {0, 1}} :
         sizes \in MatSizeLists}

MatNames == {"position", "id", "handle_left", "handle_right"}

\* What a read out of bounds can yield for a value of that type.
GarbageValues(type) == IF type = "int" THEN IntValues ELSE FloatValues

InitMat ==
  /\ \E splines \in MatCurves : heap = HeapWith(splines)
  /\ curve_ = 1
  /\ ownership_ = Owned
  /\ curve_for_render_ = NoRender
  /\ op = "new"
  /\ ret = NULL
  /\ crashed = FALSE
  /\ builds = 0
  /\ pc = IdleThreads
  /\ mutex = NULL
  /\ tret = NoReturns
  /\ calls = NoCalls
  /\ varray = SpanVArray("float",
                [k \in 1..Len(heap[1].splines) |-> Float(Stamp(500, k, 0))])
  /\ from_domain = ATTR_DOMAIN_CURVE
  /\ to_domain = ATTR_DOMAIN_POINT
  /\ adapted = NoVArray
  /\ looked = NoLooked
  /\ lookup = NoLookup
  /\ written = NoAccess
  /\ got = NoAccess
  /\ phase = "input"
  /\ BulkIdle

\* The virtual array the caller holds after the lookup or the adaptation.
MatIsBroadcast == phase = "adapted" /\ adapted.kind = "SplineToPoint"
MatIsPerSpline ==
  /\ phase = "lookup"
  /\ lookup.kind \in {"SplinePoints", "SplinePosition", "BezierHandles"}

\* varray.materialize(mask, r_span), or materialize_to_uninitialized, into a
\* buffer of the size of the array.  A read out of bounds crashes or
\* yields some value.
Materialize(indices, uninitialized) ==
  /\ ~crashed
  /\ MatIsBroadcast \/ MatIsPerSpline
  /\ LET size == IF MatIsBroadcast
                   THEN VArraySize(adapted)
                   ELSE LookupSize(heap[lookup.curve].splines, lookup)
         type == IF MatIsBroadcast THEN adapted.type ELSE LayerType(lookup.name)
     IN /\ indices \subseteq IndexRange(size)
        /\ \E garbage \in GarbageValues(type) :
             LET done ==
                   IF MatIsBroadcast
                     THEN SplineToPointMaterialize(adapted, indices, FreshBuffer(size),
                                                   garbage)
                     ELSE LookupMaterialize(heap[lookup.curve].splines, lookup,
                                            indices, FreshBuffer(size), uninitialized)
             IN /\ cursor' = done.cursor
                /\ \/ dst' = done.dst /\ UNCHANGED crashed
                   \/ done.ub /\ dst' = FreshBuffer(size) /\ crashed' = TRUE
  /\ mask' = indices
  /\ phase' = IF MatIsBroadcast THEN "materialized" ELSE "spans materialized"
  /\ op' = IF uninitialized THEN "materialize_to_uninitialized" ELSE "materialize"
  /\ UNCHANGED <<curve_, ownership_, curve_for_render_, heap, ret, builds>>
  /\ UNCHANGED threadVars
  /\ UNCHANGED <<result, new_component>>
  /\ UNCHANGED <<varray, from_domain, to_domain, adapted, looked, lookup, written, got>>

\* varray.get(index) for an index of the mask, after the bulk read.
MatGet(index) ==
  /\ ~crashed
  /\ phase \in {"materialized", "spans materialized"}
  /\ index \in mask
  /\ IF phase = "materialized"
       THEN /\ got' = [index |-> index, value |-> VArrayGet(adapted, index)]
            /\ UNCHANGED crashed
       ELSE IF GetReadsOutOfBounds(heap[lookup.curve].splines, lookup, index)
         THEN \/ /\ \E garbage \in GarbageValues(LayerType(lookup.name)) :
                      got' = [index |-> index, value |-> garbage]
                 /\ UNCHANGED crashed
              \/ got' = NoAccess /\ crashed' = TRUE
         ELSE /\ got' = [index |-> index,
                         value |-> LookupGet(heap[lookup.curve].splines, lookup, index)]
              /\ UNCHANGED crashed
  /\ phase' = IF phase = "materialized" THEN "broadcast read" ELSE "spans read"
  /\ UNCHANGED <<curve_, ownership_, curve_for_render_, heap, op, ret, builds>>
  /\ UNCHANGED threadVars
  /\ UNCHANGED bulkVars
  /\ UNCHANGED <<varray, from_domain, to_domain, adapted, looked, lookup, written>>

NextMat ==
  \/ \E name \in MatNames : TryGetForWrite(name)
  \/ AdaptDomain
  \/ \E indices \in SUBSET IndexRange(MaxMatPoints) :
       \E uninitialized \in BOOLEAN : Materialize(indices, uninitialized)
  \/ \E index \in IndexRange(MaxMatPoints) : MatGet(index)

SpecMat == InitMat /\ [][NextMat]_vars

(***************************************************************************)
(* The providers of the point attributes: read lookups, try_create and     *)
(* try_delete, on curves whose splines differ in kind and in the layers    *)
(* they carry.                                                             *)
(***************************************************************************)
MaxProvSplines == 2
MaxProvPoints == 3

\* BezierHandleAttributeProvider::try_get_for_read on a component holding a
\* curve.
BezierHandleReadLookup(curve, splines, name) ==
  IF ~has_spline_with_type(splines, CURVE_TYPE_BEZIER)
    THEN NoLookup
    ELSE MakeLookup("BezierHandles", name, ATTR_DOMAIN_POINT, curve,
                    control_point_offsets(splines), FALSE)

\* A read lookup of the builtin point providers made without asking exists().
BuiltinPointReadLookup_NoExistsCheck(curve, splines, name) ==
  IF Len(splines) = 1
    THEN MakeLookup("Span", name, ATTR_DOMAIN_POINT, curve, <<>>, FALSE)
    ELSE MakeLookup("SplinePoints", name, ATTR_DOMAIN_POINT, curve,
                    control_point_offsets(splines), FALSE)

\* BuiltinPointAttributeProvider::try_get_for_read
BuiltinPointReadLookup(curve, splines, name) ==
  IF ~BuiltinPointExists(splines, name) THEN NoLookup
  ELSE IF Len(splines) = 1
    THEN MakeLookup("Span", name, ATTR_DOMAIN_POINT, curve, <<>>, FALSE)
  ELSE MakeLookup("SplinePoints", name, ATTR_DOMAIN_POINT, curve,
                  control_point_offsets(splines), FALSE)

\* DynamicPointAttributeProvider::try_get_for_read
DynamicPointReadLookup(curve, splines, name) ==
  IF Len(splines) = 0 THEN NoLookup
  ELSE IF splines[1].attributes[name].type = "none" THEN NoLookup
  ELSE IF \E i \in 2..Len(splines) :
            \/ splines[i].attributes[name].type = "none"
            \/ splines[i].attributes[name].type # splines[i - 1].attributes[name].type
    THEN NoLookup
  ELSE IF Len(splines) = 1
    THEN MakeLookup("Span", name, ATTR_DOMAIN_POINT, curve, <<>>, FALSE)
  ELSE MakeLookup("SplinePoints", name, ATTR_DOMAIN_POINT, curve,
                  control_point_offsets(splines), FALSE)

\* BuiltinSplineAttributeProvider::try_get_for_read on a component holding a
\* curve: the derived array over the splines, however many there are.
BuiltinSplineReadLookup(curve, splines, name) ==
  MakeLookup("DerivedSpan", name, ATTR_DOMAIN_CURVE, curve, <<>>, FALSE)

\* The provider the component asks for an attribute of that name.
ReadLookupFor(curve, splines, name) ==
  IF name \in BezierHandleNames THEN BezierHandleReadLookup(curve, splines, name)
  ELSE IF name \in BuiltinPointNames THEN BuiltinPointReadLookup(curve, splines, name)
  ELSE IF name \in BuiltinSplineNames THEN BuiltinSplineReadLookup(curve, splines, name)
  ELSE DynamicPointReadLookup(curve, splines, name)

\* BezierHandleAttributeProvider::exists
BezierHandleExists(h, c) ==
  IF c = NULL THEN FALSE
  ELSE /\ has_spline_with_type(h[c].splines, CURVE_TYPE_BEZIER)
       /\ attribute_domain_size(h, c, ATTR_DOMAIN_POINT) # 0

\* BuiltinSplineAttributeProvider::exists
BuiltinSplineExists(h, c) == attribute_domain_size(h, c, ATTR_DOMAIN_CURVE) # 0

\* exists(component) of the builtin provider of that name.
ExistsFor(h, c, name) ==
  IF name \in BezierHandleNames THEN BezierHandleExists(h, c)
  ELSE IF name \in BuiltinSplineNames THEN BuiltinSplineExists(h, c)
  ELSE IF c = NULL THEN FALSE
  ELSE BuiltinPointExists(h[c].splines, name)

\* The three kinds of AttributeInit.
AttributeInitTypes == {"Default", "VArray", "MoveArray"}

\* A create loop that takes the slots it made away again when a spline
\* refuses.
RECURSIVE CreateLayers_RollBack(_, _, _, _, _)
CreateLayers_RollBack(splines, i, name, type, fail_at) ==
  IF i >= Len(splines)
    THEN [splines |-> splines, refused |-> -1]
  ELSE IF i = fail_at \/ At(splines, i).attributes[name].type # "none"
    THEN [splines |-> [k \in 1..Len(splines) |->
                         IF k <= i
                           THEN [splines[k] EXCEPT !.attributes[name] = NoLayer]
                           ELSE splines[k]],
          refused |-> i]
  ELSE CreateLayers_RollBack(
         [splines EXCEPT ![i + 1].attributes[name] =
            NewLayer(type, At(splines, i).size)],
         i + 1, name, type, fail_at)

\* CustomDataAttributes::create(name, type) on the splines from index i on,
\* in order: a spline refuses when the allocation fails (spline fail_at) or
\* when it carries a slot of that name already; the loop stops there and
\* the slots made before stay.
RECURSIVE CreateLayers(_, _, _, _, _)
CreateLayers(splines, i, name, type, fail_at) ==
  IF i >= Len(splines)
    THEN [splines |-> splines, refused |-> -1]
  ELSE IF i = fail_at \/ At(splines, i).attributes[name].type # "none"
    THEN [splines |-> splines, refused |-> i]
  ELSE CreateLayers(
         [splines EXCEPT ![i + 1].attributes[name] =
            NewLayer(type, At(splines, i).size)],
         i + 1, name, type, fail_at)

\* create_point_attribute on the curve get_for_write() returned.
create_point_attribute(curve, splines, name, type, initializer, values, fail_at) ==
  IF curve = NULL \/ Len(splines) = 0
    THEN [value |-> FALSE, refused |-> -1, splines |-> splines, crashed |-> FALSE]
  ELSE IF Len(splines) = 1 /\ initializer = "MoveArray"
    THEN IF fail_at = 0 \/ splines[1].attributes[name].type # "none"
           THEN [value |-> FALSE, refused |-> 0, splines |-> splines,
                 crashed |-> FALSE]
           ELSE [value |-> TRUE, refused |-> -1,
                 splines |-> [splines EXCEPT ![1].attributes[name] =
                                [type |-> type, data |-> values]],
                 crashed |-> FALSE]
  ELSE LET made == CreateLayers(splines, 0, name, type, fail_at)
       IN IF made.refused # -1
            THEN [value |-> FALSE, refused |-> made.refused,
                  splines |-> made.splines, crashed |-> FALSE]
          ELSE IF initializer = "Default"
            THEN [value |-> TRUE, refused |-> -1, splines |-> made.splines,
                  crashed |-> FALSE]
          ELSE LET write_attribute == WriteLookupFor(curve, made.splines, name)
               IN IF ~LookupPresent(write_attribute)
                    THEN [value |-> FALSE, refused |-> -1,
                          splines |-> made.splines, crashed |-> TRUE]
                    ELSE [value |-> TRUE, refused |-> -1,
                          splines |-> LookupSetAll(made.splines, write_attribute,
                                                   values),
                          crashed |-> FALSE]

\* CustomDataAttributes::remove(name): whether the spline carried the slot.
attributes_remove(spline, name) ==
  [removed |-> spline.attributes[name].type # "none",
   spline |-> [spline EXCEPT !.attributes[name] = NoLayer]]

\* A remove that takes the slot from the last spline only.
remove_point_attribute_LastOnly(curve, splines, name) ==
  IF curve = NULL
    THEN [value |-> FALSE, splines |-> splines]
    ELSE [value |-> Len(splines) > 0
                      /\ attributes_remove(splines[Len(splines)], name).removed,
          splines |-> [k \in 1..Len(splines) |->
                         IF k = Len(splines)
                           THEN attributes_remove(splines[k], name).spline
                           ELSE splines[k]]]

\* remove_point_attribute: layer_freed is overwritten for every spline, so
\* it is what the last spline reported.
remove_point_attribute(curve, splines, name) ==
  IF curve = NULL
    THEN [value |-> FALSE, splines |-> splines]
    ELSE [value |-> Len(splines) > 0
                      /\ attributes_remove(splines[Len(splines)], name).removed,
          splines |-> [k \in 1..Len(splines) |-> attributes_remove(splines[k], name).spline]]

\* component.get_for_write() as the providers call it: the curve to write to
\* and the heap and ownership it leaves.
AfterGetForWrite ==
  IF ~GetForWriteNeedsCopy
    THEN [heap |-> heap, curve |-> curve_, ownership |-> ownership_,
          crashed |-> FALSE]
  ELSE IF curve_ = NULL
    THEN [heap |-> heap, curve |-> curve_, ownership |-> ownership_,
          crashed |-> TRUE]
  ELSE [heap |-> CloneCurve(heap, curve_), curve |-> NewId(heap),
        ownership |-> Owned, crashed |-> FALSE]

\* Spline k of a curve: a stamped spline with a weight layer of the given
\* type ("none": no layer).
ProvSpline(type, size, k, has_id, weight_type) ==
  [StampedSpline(type, size, k, has_id) EXCEPT
     !.attributes["weight"] =
        IF weight_type = "none"
          THEN NoLayer
          ELSE [type |-> weight_type,
                data |-> [p \in 1..size |->
                            IF weight_type = "int"
                              THEN Stamp(500, k, p)
                              ELSE Float(Stamp(500, k, p))]]]

ProvSizeLists == UNION {SizeLists(len, MaxProvPoints) : len \in 0..MaxProvSplines}

\* Curves of splines of any kind that all carry the id layer or all lack
\* it, and poly curves whose splines each carry a float weight layer, an
\* int weight layer or none.
ProvCurves ==
  UNION {{[k \in 1..Len(sizes) |-> ProvSpline(types[k], sizes[k], k, has_id, "none")] :
            types \in [1..Len(sizes) -> CurveTypes], has_id \in BOOLEAN}
           \cup
         {[k \in 1..Len(sizes) |->
             ProvSpline(CURVE_TYPE_POLY, sizes[k], k, FALSE, weights[k])] :
            weights \in [1..Len(sizes) -> {"none", "float", "int"}]} :
         sizes \in ProvSizeLists}

\* The curve of scenario B of the specification: one poly spline of 5 points.
ScenarioPolySize == <<5>>
ScenarioPolyCurve == <<ProvSpline(CURVE_TYPE_POLY, ScenarioPolySize[1], 1, FALSE, "none")>>

\* The values of an initializer, or of the source of set_all, for a domain
\* of that size.
SourceValues(type, size) ==
  [i \in 1..size |-> IF type = "int" THEN Stamp(600, 0, i) ELSE Float(Stamp(600, 0, i))]

ProvNames == {"id", "weight", "handle_left", "handle_right"}

\* A component holding one of the curves (those of one spline owned or
\* borrowed, the others owned), or no curve.
InitProv ==
  /\ \/ \E splines \in ProvCurves \cup {ScenarioPolyCurve} :
          /\ heap = HeapWith(splines)
          /\ curve_ = 1
          /\ ownership_ \in IF Len(splines) <= 1 THEN GeometryOwnershipType ELSE {Owned}
          /\ varray = SpanVArray("float",
                                 SourceValues("float", TotalPoints(splines, Len(splines))))
     \/ /\ heap = EmptyHeap
        /\ curve_ = NULL
        /\ ownership_ = Owned
        /\ varray = SpanVArray("float", <<>>)
  /\ curve_for_render_ = NoRender
  /\ op = "new"
  /\ ret = NULL
  /\ crashed = FALSE
  /\ builds = 0
  /\ pc = IdleThreads
  /\ mutex = NULL
  /\ tret = NoReturns
  /\ calls = NoCalls
  /\ from_domain = ATTR_DOMAIN_POINT
  /\ to_domain = ATTR_DOMAIN_POINT
  /\ adapted = NoVArray
  /\ looked = NoLooked
  /\ lookup = NoLookup
  /\ written = NoAccess
  /\ got = NoAccess
  /\ phase = "input"
  /\ BulkIdle

\* component.attribute_try_get_for_read(name)
TryGetForRead(name) ==
  /\ ~crashed
  /\ phase = "input"
  /\ lookup' = IF curve_ = NULL
                 THEN NoLookup
                 ELSE ReadLookupFor(curve_, heap[curve_].splines, name)
  /\ phase' = "read lookup"
  /\ op' = "attribute_try_get_for_read"
  /\ result' = [NoResult EXCEPT !.name = name]
  /\ UNCHANGED <<curve_, ownership_, curve_for_render_, heap, ret, crashed, builds>>
  /\ UNCHANGED threadVars
  /\ UNCHANGED <<mask, dst, cursor, new_component>>
  /\ UNCHANGED <<varray, from_domain, to_domain, adapted, looked, written, got>>

\* try_create of the provider of that name, by a caller that has come as
\* far as one of the given phases: the Bezier handle providers
\* refuse, the dynamic provider refuses a domain other than the point
\* domain, and both the id provider and the dynamic provider then run
\* create_point_attribute.
TryCreateFrom(phases, name, domain, type, initializer, fail_at) ==
  /\ ~crashed
  /\ phase \in phases
  /\ IF name \in BezierHandleNames \/ (name \notin BuiltinNames /\ domain # ATTR_DOMAIN_POINT)
       THEN /\ result' = [NoResult EXCEPT !.name = name, !.domain = domain,
                                          !.type = type, !.initializer = initializer]
            /\ written' = NoAccess
            /\ UNCHANGED <<curve_, ownership_, heap, crashed>>
       ELSE LET w == AfterGetForWrite
                splines == IF w.curve = NULL THEN <<>> ELSE w.heap[w.curve].splines
                values == IF initializer = "Default"
                            THEN <<>>
                            ELSE SourceValues(type, TotalPoints(splines, Len(splines)))
                made == create_point_attribute(w.curve, splines, name, type,
                                               initializer, values, fail_at)
            IN /\ GetForWriteNeedsCopy /\ curve_ # NULL => FreeIds(heap) # {}
               /\ curve_' = w.curve
               /\ ownership_' = w.ownership
               /\ crashed' = (w.crashed \/ made.crashed)
               /\ heap' = IF w.curve = NULL \/ w.crashed
                            THEN w.heap
                            ELSE [w.heap EXCEPT ![w.curve].splines = made.splines]
               /\ written' = [index |-> -1, value |-> values]
               /\ result' = [value |-> made.value, refused |-> made.refused,
                             name |-> name, domain |-> domain, type |-> type,
                             initializer |-> initializer]
  /\ phase' = "created"
  /\ op' = "try_create"
  /\ UNCHANGED <<curve_for_render_, ret, builds>>
  /\ UNCHANGED threadVars
  /\ UNCHANGED <<mask, dst, cursor, new_component>>
  /\ UNCHANGED <<varray, from_domain, to_domain, adapted, looked, lookup, got>>

\* The first call on a component is a try_create.
TryCreate(name, domain, type, initializer, fail_at) ==
  TryCreateFrom({"input"}, name, domain, type, initializer, fail_at)

\* try_delete of the provider of that name, by a caller that has come as
\* far as one of the given phases: the Bezier handle providers
\* refuse, the id provider and the dynamic provider run
\* remove_point_attribute.
TryDeleteFrom(phases, name) ==
  /\ ~crashed
  /\ phase \in phases
  /\ IF name \in BezierHandleNames
       THEN /\ result' = [NoResult EXCEPT !.name = name]
            /\ UNCHANGED <<curve_, ownership_, heap, crashed>>
       ELSE LET w == AfterGetForWrite
                splines == IF w.curve = NULL THEN <<>> ELSE w.heap[w.curve].splines
                removed == remove_point_attribute(w.curve, splines, name)
            IN /\ GetForWriteNeedsCopy /\ curve_ # NULL => FreeIds(heap) # {}
               /\ curve_' = w.curve
               /\ ownership_' = w.ownership
               /\ crashed' = w.crashed
               /\ heap' = IF w.curve = NULL \/ w.crashed
                            THEN w.heap
                            ELSE [w.heap EXCEPT ![w.curve].splines = removed.splines]
               /\ result' = [NoResult EXCEPT !.value = removed.value, !.name = name]
  /\ phase' = "deleted"
  /\ op' = "try_delete"
  /\ UNCHANGED <<curve_for_render_, ret, builds>>
  /\ UNCHANGED threadVars
  /\ UNCHANGED <<mask, dst, cursor, new_component>>
  /\ UNCHANGED <<varray, from_domain, to_domain, adapted, looked, lookup, written, got>>

\* The first call on a component is a try_delete.
TryDelete(name) == TryDeleteFrom({"input"}, name)

NextProv ==
  \/ \E name \in ProvNames : TryGetForRead(name)
  \/ \E name \in ProvNames : TryGetForWrite(name)
  \/ \E index \in IndexRange(MaxProvPoints) :
       \E value \in FloatValues :
         lookup.name \in BezierHandleNames /\ VArraySet(index, value)
  \/ lookup.name \in BezierHandleNames /\ SetAll
  \/ TagModified
  \/ \E index \in IndexRange(MaxProvPoints) : VArrayGetAt(index)
  \/ \E name \in ProvNames, domain \in {ATTR_DOMAIN_POINT, ATTR_DOMAIN_CURVE},
        type \in {"float", "int"}, initializer \in AttributeInitTypes,
        fail_at \in -1..(MaxProvSplines - 1) :
       /\ name = "id" => type = "int" /\ domain = ATTR_DOMAIN_POINT
       /\ name \in BezierHandleNames
            => type = "float" /\ domain = ATTR_DOMAIN_POINT /\ fail_at = -1
       /\ TryCreate(name, domain, type, initializer, fail_at)
  \/ \E name \in ProvNames : TryDelete(name)

SpecProv == InitProv /\ [][NextProv]_vars

(***************************************************************************)
(* Sequences of try_create and try_delete of the id provider and of the    *)
(* dynamic provider, on curves whose splines all carry the same slots.     *)
(***************************************************************************)
MaxSlotSplines == 2
MaxSlotPoints == 1

\* Curves of up to MaxSlotSplines poly splines of up to MaxSlotPoints points
\* each, all with the id slot or all without, and all with a weight slot of
\* one type or all without.
SlotCurves ==
  UNION {{[k \in 1..len |-> ProvSpline(CURVE_TYPE_POLY, sizes[k], k, has_id, weight_type)] :
            sizes \in [1..len -> 0..MaxSlotPoints], has_id \in BOOLEAN,
            weight_type \in {"none", "float", "int"}} :
         len \in 0..MaxSlotSplines}

SlotNames == {"id", "weight"}

\* A component owning one of these curves.
InitSlots ==
  /\ \E splines \in SlotCurves : heap = HeapWith(splines)
  /\ curve_ = 1
  /\ ownership_ = Owned
  /\ curve_for_render_ = NoRender
  /\ op = "new"
  /\ ret = NULL
  /\ crashed = FALSE
  /\ builds = 0
  /\ pc = IdleThreads
  /\ mutex = NULL
  /\ tret = NoReturns
  /\ calls = NoCalls
  /\ varray = NoVArray
  /\ from_domain = ATTR_DOMAIN_POINT
  /\ to_domain = ATTR_DOMAIN_POINT
  /\ adapted = NoVArray
  /\ looked = NoLooked
  /\ lookup = NoLookup
  /\ written = NoAccess
  /\ got = NoAccess
  /\ phase = "input"
  /\ BulkIdle

NextSlots ==
  \/ \E name \in SlotNames, type \in {"float", "int"},
        initializer \in AttributeInitTypes, fail_at \in -1..(MaxSlotSplines - 1) :
       /\ name = "id" => type = "int"
       /\ TryCreateFrom({"input", "created", "deleted"}, name, ATTR_DOMAIN_POINT,
                        type, initializer, fail_at)
  \/ \E name \in SlotNames : TryDeleteFrom({"input", "created", "deleted"}, name)

SpecSlots == InitSlots /\ [][NextSlots]_vars

(***************************************************************************)
(* exists() of the builtin providers next to their try_get_for_read.       *)
(***************************************************************************)
\* A component holding no curve, or a curve of splines of any kinds and
\* sizes that all carry the id slot or all lack it.
InitExists ==
  /\ \/ /\ \E splines \in TypedCurves, has_id \in BOOLEAN :
               heap = HeapWith([k \in 1..Len(splines) |->
                                  IF has_id
                                    THEN splines[k]
                                    ELSE [splines[k] EXCEPT !.attributes["id"] = NoLayer]])
          /\ curve_ = 1
          /\ ownership_ \in GeometryOwnershipType
     \/ /\ heap = EmptyHeap
        /\ curve_ = NULL
        /\ ownership_ = Owned
  /\ curve_for_render_ = NoRender
  /\ op = "new"
  /\ ret = NULL
  /\ crashed = FALSE
  /\ builds = 0
  /\ pc = IdleThreads
  /\ mutex = NULL
  /\ tret = NoReturns
  /\ calls = NoCalls
  /\ varray = NoVArray
  /\ from_domain = ATTR_DOMAIN_POINT
  /\ to_domain = ATTR_DOMAIN_POINT
  /\ adapted = NoVArray
  /\ looked = NoLooked
  /\ lookup = NoLookup
  /\ written = NoAccess
  /\ got = NoAccess
  /\ phase = "input"
  /\ BulkIdle

\* exists(component) of the provider whose try_get_for_read the caller has
\* just called.
AttributeExists ==
  /\ ~crashed
  /\ phase = "read lookup"
  /\ result' = [result EXCEPT !.value = ExistsFor(heap, curve_, result.name)]
  /\ phase' = "exists"
  /\ op' = "exists"
  /\ UNCHANGED <<curve_, ownership_, curve_for_render_, heap, ret, crashed, builds>>
  /\ UNCHANGED threadVars
  /\ UNCHANGED <<mask, dst, cursor, new_component>>
  /\ UNCHANGED <<varray, from_domain, to_domain, adapted, looked, lookup, written, got>>

NextExists ==
  \/ \E name \in BuiltinNames : TryGetForRead(name)
  \/ AttributeExists

SpecExists == InitExists /\ [][NextExists]_vars

(***************************************************************************)
(* Writes through the per-spline arrays of the point attributes: set_all   *)
(* and set, the update callback of the lookup after them, and get, on      *)
(* curves with stamped point data.                                         *)
(***************************************************************************)
WriteNames == {"position", "radius", "id"}

\* A component owning one of the curves of the bulk reads; the caller holds
\* an array of one value per point to write with set_all.
InitWrite ==
  /\ \E splines \in MatCurves : heap = HeapWith(splines)
  /\ curve_ = 1
  /\ ownership_ = Owned
  /\ curve_for_render_ = NoRender
  /\ op = "new"
  /\ ret = NULL
  /\ crashed = FALSE
  /\ builds = 0
  /\ pc = IdleThreads
  /\ mutex = NULL
  /\ tret = NoReturns
  /\ calls = NoCalls
  /\ \E type \in {"int", "float"} :
       varray = SpanVArray(type,
                  SourceValues(type, attribute_domain_size(heap, 1, ATTR_DOMAIN_POINT)))
  /\ from_domain = ATTR_DOMAIN_POINT
  /\ to_domain = ATTR_DOMAIN_POINT
  /\ adapted = NoVArray
  /\ looked = NoLooked
  /\ lookup = NoLookup
  /\ written = NoAccess
  /\ got = NoAccess
  /\ phase = "input"
  /\ BulkIdle

\* lookup.varray.get(index) after a set or a set_all.  get of
\* VArrayImpl_For_SplinePoints reads data_[s][p] unchecked: past the end of
\* the span it crashes or yields some value.
PointGet(index) ==
  /\ ~crashed
  /\ phase \in {"set", "written"}
  /\ index \in IndexRange(LookupSize(heap[lookup.curve].splines, lookup))
  /\ IF GetReadsOutOfBounds(heap[lookup.curve].splines, lookup, index)
       THEN \/ /\ \E garbage \in GarbageValues(LayerType(lookup.name)) :
                    got' = [index |-> index, value |-> garbage]
               /\ UNCHANGED crashed
            \/ got' = NoAccess /\ crashed' = TRUE
       ELSE /\ got' = [index |-> index,
                       value |-> LookupGet(heap[lookup.curve].splines, lookup, index)]
            /\ UNCHANGED crashed
  /\ phase' = IF phase = "set" THEN "get" ELSE "get after set_all"
  /\ op' = "get"
  /\ UNCHANGED <<curve_, ownership_, curve_for_render_, heap, ret, builds>>
  /\ UNCHANGED threadVars
  /\ UNCHANGED bulkVars
  /\ UNCHANGED <<varray, from_domain, to_domain, adapted, looked, lookup, written>>

NextWrite ==
  \/ \E name \in WriteNames : TryGetForWrite(name)
  \/ \E index \in IndexRange(MaxMatPoints) :
       \E value \in ValuesFor(lookup.name) : VArraySet(index, value)
  \/ SetAll
  \/ TagModified
  \/ \E index \in IndexRange(MaxMatPoints) : PointGet(index)

SpecWrite == InitWrite /\ [][NextWrite]_vars


(***************************************************************************)
(* Properties of the component.                                            *)
(***************************************************************************)

\* C1: whenever a cached render curve exists the component has a curve and
\* the cache points at exactly that curve, and after clear() there is
\* neither a curve nor a cached render curve.
C1_RenderCacheFollowsCurve ==
  /\ curve_for_render_.id # NULL =>
       curve_ # NULL /\ curve_for_render_.curve_eval = curve_
  /\ op = "clear" => curve_ = NULL /\ curve_for_render_.id = NULL

\* C2: get_for_write() on a borrowed (ReadOnly) curve returns a fresh deep
\* clone, different from the borrowed curve, makes the component its owner
\* and leaves the borrowed curve as it was; on an owned curve it returns the
\* same curve and allocates nothing; when it returns, owns_direct_data().
C2_GetForWriteCopiesOnWrite ==
  [][(op' = "get_for_write" /\ ~crashed') =>
       /\ (curve_ # NULL /\ ownership_ = ReadOnly) =>
            /\ ret' # curve_
            /\ ret' = curve_'
            /\ heap[ret'].st = "free"
            /\ heap'[ret'].st = "live"
            /\ heap'[ret'].splines = heap[curve_].splines
            /\ heap'[curve_] = heap[curve_]
            /\ ownership_' = Owned
       /\ ownership_ = Owned =>
            /\ ret' = curve_
            /\ curve_' = curve_
            /\ heap' = heap
       /\ ownership_' = Owned]_vars

\* C2 witness: get_for_write() has returned a clone while the curve it was
\* cloned from is still alive beside it.
C2_Witness ==
  /\ op = "get_for_write"
  /\ ret # NULL
  /\ ret = curve_
  /\ owns_direct_data
  /\ \E c \in LiveIds(heap) \ {ret} :
       /\ c < ret
       /\ heap[c].splines = heap[ret].splines

\* C3: with a curve present and only get_curve_for_render() running, the
\* render curve is created once, and every call that has returned returned
\* that one render curve.
C3_RenderBuiltOnce ==
  /\ builds <= 1
  /\ \A t \in Threads :
       (curve_ # NULL /\ calls[t] > 0 /\ pc[t] = "idle") =>
          /\ builds = 1
          /\ tret[t] # NULL
          /\ tret[t] = curve_for_render_.id

\* C3 witness: every thread has made two calls, all have returned the render
\* curve that one of them built.
C3_Witness ==
  /\ curve_ # NULL
  /\ builds = 1
  /\ \A t \in Threads :
       calls[t] = MaxCalls /\ pc[t] = "idle" /\ tret[t] = curve_for_render_.id

(***************************************************************************)
(* Properties of the point lookup and the domain adapter.                  *)
(***************************************************************************)
\* The splines of the curve the component holds.
CurveSplines == IF curve_ = NULL THEN <<>> ELSE heap[curve_].splines

\* Number of points in the splines before spline s (0-based).
RECURSIVE PointsBefore(_, _)
PointsBefore(splines, s) ==
  IF s = 0 THEN 0 ELSE PointsBefore(splines, s - 1) + splines[s].size

\* Flat index i is one of the points of spline s (0-based).
OwnsPoint(splines, s, i) ==
  /\ PointsBefore(splines, s) <= i
  /\ i < PointsBefore(splines, s) + At(splines, s).size

\* C4: for offsets that are the prefix sums of the spline sizes and a flat
\* index i below the total, lookup_point_indices returns the unique spline s
\* with offsets[s] <= i < offsets[s + 1] and the local index i - offsets[s].
C4_LookupFindsOwningSpline ==
  phase = "looked" =>
    LET offsets == control_point_offsets(CurveSplines)
        s == looked.spline_index
    IN /\ s \in IndexRange(Len(CurveSplines))
       /\ At(offsets, s) <= looked.index
       /\ looked.index < At(offsets, s + 1)
       /\ looked.point_index = looked.index - At(offsets, s)
       /\ \A k \in IndexRange(Len(CurveSplines)) :
            OwnsPoint(CurveSplines, k, looked.index) <=> k = s
       /\ \A k \in IndexRange(Len(CurveSplines) + 1) :
            At(offsets, k) = PointsBefore(CurveSplines, k)

\* C4 happens: a point that is not the first of its spline is looked up in
\* a curve where an empty spline sits before the owning spline.
C4_Witness ==
  /\ phase = "looked"
  /\ looked.point_index > 0
  /\ looked.spline_index > 0
  /\ \E k \in IndexRange(looked.spline_index) : At(CurveSplines, k).size = 0

\* C6: adapting a values array from a domain to the same domain returns the
\* same values: the same length, the same content at every index, and, when
\* there is anything in it, the very array that was passed in.
C6_SameDomainIsIdentity ==
  (phase = "adapted" /\ from_domain = to_domain /\ VArrayPresent(varray)) =>
    /\ VArraySize(adapted) = VArraySize(varray)
    /\ VArrayValues(adapted) = VArrayValues(varray)
    /\ ~VArrayIsEmpty(varray) => adapted = varray

\* C6 happens: a non-empty array was adapted from a domain to itself.
C6_Witness ==
  /\ phase = "adapted"
  /\ from_domain = to_domain
  /\ VArraySize(varray) > 1
  /\ adapted = varray

ConvertingPairs ==
  {<<ATTR_DOMAIN_POINT, ATTR_DOMAIN_CURVE>>, <<ATTR_DOMAIN_CURVE, ATTR_DOMAIN_POINT>>}

\* The kinds of array a conversion builds.
ConvertedKinds == {"container", "SplineToPoint"}

\* C7: the adapter returns the absent array, and never fails, when the input
\* is absent or empty and when the domains differ and are not point/curve in
\* either order; only point -> curve and curve -> point give a converted
\* array, and they do for every non-empty input.
C7_AdaptAbsentCases ==
  /\ op = "attribute_try_adapt_domain_impl" => ~crashed
  /\ phase = "adapted" =>
       /\ (~VArrayPresent(varray) \/ VArrayIsEmpty(varray)) => adapted = NoVArray
       /\ (from_domain # to_domain /\ <<from_domain, to_domain>> \notin ConvertingPairs)
            => adapted = NoVArray
       /\ adapted.kind \in ConvertedKinds
            => <<from_domain, to_domain>> \in ConvertingPairs
       /\ (<<from_domain, to_domain>> \in ConvertingPairs /\ ~VArrayIsEmpty(varray))
            => adapted.kind \in ConvertedKinds

\* C7 happens: a non-empty array was adapted between two different domains
\* of which one is neither point nor curve, and came back absent.
C7_Witness ==
  /\ phase = "adapted"
  /\ ~VArrayIsEmpty(varray)
  /\ from_domain # to_domain
  /\ <<from_domain, to_domain>> \notin ConvertingPairs
  /\ adapted = NoVArray

\* C8: point -> curve of a boolean array gives, for every spline, true
\* exactly when all of that spline's points are true (true for a spline
\* without points); the points of other splines do not matter.
C8_BoolPointToSplineIsAnd ==
  (/\ phase = "adapted"
   /\ from_domain = ATTR_DOMAIN_POINT
   /\ to_domain = ATTR_DOMAIN_CURVE
   /\ varray.type = "bool"
   /\ ~VArrayIsEmpty(varray)) =>
    /\ adapted.type = "bool"
    /\ VArraySize(adapted) = Len(CurveSplines)
    /\ \A s \in IndexRange(Len(CurveSplines)) :
         VArrayGet(adapted, s) =
           \A i \in IndexRange(VArraySize(varray)) :
             OwnsPoint(CurveSplines, s, i) => VArrayGet(varray, i)

\* C8 happens: in one conversion an empty spline came out true, a spline
\* with a false point came out false and a spline of true points came out
\* true while another spline holds a false point.
C8_Witness ==
  /\ phase = "adapted"
  /\ from_domain = ATTR_DOMAIN_POINT
  /\ to_domain = ATTR_DOMAIN_CURVE
  /\ varray.type = "bool"
  /\ VArrayPresent(adapted)
  /\ \E s, t, u \in IndexRange(Len(CurveSplines)) :
       /\ At(CurveSplines, s).size = 0 /\ VArrayGet(adapted, s)
       /\ At(CurveSplines, t).size > 1 /\ VArrayGet(adapted, t)
       /\ ~VArrayGet(adapted, u)

\* Sum of data[lo + 1 .. lo + n] of float values.
RECURSIVE FloatSum(_, _, _)
FloatSum(data, lo, n) ==
  IF n = 0 THEN Float(0) ELSE FloatAdd(FloatSum(data, lo, n - 1), data[lo + n])

\* The arithmetic mean of the values of the points of spline s, the default
\* value 0 for a spline without points.
MeanOfSpline(splines, data, s) ==
  IF At(splines, s).size = 0
    THEN Float(0)
    ELSE FloatDivide(FloatSum(data, PointsBefore(splines, s), At(splines, s).size),
                     At(splines, s).size)

\* C9: point -> curve of a numeric array gives every spline the arithmetic
\* mean of its points (the default value for a spline without points); a
\* point attribute written with set_all reads back as written; and on the
\* curve with spline sizes [3, 2] the point values [1, 2, 3, 4, 5] read back
\* the same and convert to [2.0, 4.5].
C9_NumericPointToSplineIsMean ==
  /\ (/\ phase = "adapted"
      /\ from_domain = ATTR_DOMAIN_POINT
      /\ to_domain = ATTR_DOMAIN_CURVE
      /\ varray.type = "float"
      /\ ~VArrayIsEmpty(varray)) =>
       /\ adapted.type = "float"
       /\ VArraySize(adapted) = Len(CurveSplines)
       /\ \A s \in IndexRange(Len(CurveSplines)) :
            VArrayGet(adapted, s) = MeanOfSpline(CurveSplines, VArrayValues(varray), s)
  /\ phase = "read" => VArrayValues(varray) = written.value
  /\ (/\ phase = "adapted"
      /\ Len(CurveSplines) = Len(ScenarioSizes)
      /\ \A k \in 1..Len(ScenarioSizes) : CurveSplines[k].size = ScenarioSizes[k]
      /\ LookupPresent(lookup)
      /\ written.value = ScenarioValues
      /\ from_domain = ATTR_DOMAIN_POINT
      /\ to_domain = ATTR_DOMAIN_CURVE) =>
       /\ VArrayValues(varray) = ScenarioValues
       /\ VArrayValues(adapted) = <<Float(2), Fraction(9, 2)>>

\* C9 happens: scenario A ran through the write lookup, set_all, the read
\* back and the conversion, and the per-spline result is [2, 9/2].
C9_ScenarioWitness ==
  /\ phase = "adapted"
  /\ op = "attribute_try_adapt_domain_impl"
  /\ LookupPresent(lookup)
  /\ written.value = ScenarioValues
  /\ VArrayValues(adapted) = <<Float(2), Fraction(9, 2)>>

\* C10: curve -> point gives an array with one entry for every point of the
\* curve, and get(i) is the value of the spline that owns point i.
C10_SplineToPointBroadcasts ==
  (/\ phase \in {"adapted", "got"}
   /\ from_domain = ATTR_DOMAIN_CURVE
   /\ to_domain = ATTR_DOMAIN_POINT
   /\ ~VArrayIsEmpty(varray)) =>
    /\ VArraySize(adapted) = PointsBefore(CurveSplines, Len(CurveSplines))
    /\ phase = "got" =>
         \E s \in IndexRange(Len(CurveSplines)) :
           /\ OwnsPoint(CurveSplines, s, got.index)
           /\ got.value = VArrayGet(varray, s)

\* C10 happens: get(i) on a converted array returned the value of a spline
\* that is not the first, for a point that is not the first of its spline,
\* and that value differs from the first spline's.
C10_Witness ==
  /\ phase = "got"
  /\ from_domain = ATTR_DOMAIN_CURVE
  /\ to_domain = ATTR_DOMAIN_POINT
  /\ \E s \in IndexRange(Len(CurveSplines)) :
       /\ s > 0
       /\ OwnsPoint(CurveSplines, s, got.index)
       /\ got.index > PointsBefore(CurveSplines, s)
       /\ got.value = VArrayGet(varray, s)
       /\ got.value # VArrayGet(varray, 0)

(***************************************************************************)
(* Properties of the writable attributes.                                  *)
(***************************************************************************)
\* The spline a flat index of the current write lookup lands in.
WrittenSpline ==
  IF lookup.kind \in {"Span", "DerivedSpan"}
    THEN At(heap[lookup.curve].splines,
            IF lookup.kind = "Span" THEN 0 ELSE written.index)
    ELSE CHOOSE spline \in {At(heap[lookup.curve].splines, s) :
                              s \in {k \in IndexRange(Len(heap[lookup.curve].splines)) :
                                       OwnsPoint(heap[lookup.curve].splines, k, written.index)}} :
           TRUE

StoredAsWritten ==
  CASE lookup.name = "resolution" ->
         /\ WrittenSpline.type \in {CURVE_TYPE_BEZIER, CURVE_TYPE_NURBS}
         /\ written.value >= 1
    [] lookup.name \in BezierHandleNames -> WrittenSpline.type = CURVE_TYPE_BEZIER
    [] OTHER -> TRUE

MaskIsFullRange == mask = IndexRange(Len(dst))

\* What the per-spline spans of the lookup hold for flat index i, a point
\* of spline s: the default where the span is empty.
SpanValueAt(s, i) ==
  LET span == At(LookupSpans(CurveSplines, lookup), s)
  IN IF Len(span) = 0
       THEN DefaultValue(LayerType(lookup.name))
       ELSE At(span, i - PointsBefore(CurveSplines, s))

\* C11: for every virtual array (per-spline spans, positions, Bezier
\* handles, the spline-to-point broadcast) and the full range, materialize
\* and materialize_to_uninitialized write every destination index exactly
\* once, and what they write at index i is the value get(i) returns.
C11_FullRangeMaterializeEqualsGet ==
  (/\ ~crashed
   /\ phase \in {"materialized", "spans materialized", "broadcast read", "spans read"}
   /\ MaskIsFullRange)
    => /\ \A i \in 1..Len(dst) : dst[i].writes = 1
       /\ phase \in {"broadcast read", "spans read"}
            => dst[got.index + 1].value = got.value

\* C12: the broadcast array materialized through an increasing mask that is
\* not the full range writes, at each masked index, the value of the spline
\* owning that index, and its cursor never passes the last spline.
C12_BroadcastMaskFindsOwningSpline ==
  (phase = "materialized" /\ ~MaskIsFullRange)
    => /\ ~crashed
       /\ cursor < Len(adapted.data)
       /\ \A i \in mask :
            /\ dst[i + 1].writes = 1
            /\ \A s \in IndexRange(Len(CurveSplines)) :
                 OwnsPoint(CurveSplines, s, i) => dst[i + 1].value = At(adapted.data, s)

\* C13: materialize and materialize_to_uninitialized over per-spline spans,
\* for the full range and for any increasing mask: a masked index owned by
\* a spline with an empty span receives the default value, any other masked
\* index i of spline s receives span[s][i - offsets[s]]; no span is read out
\* of bounds, the cursor never passes the last spline, and the destination
\* indices outside the mask are left as they were.
C13_SpanMaterializeByOwner ==
  phase = "spans materialized"
    => /\ ~crashed
       /\ cursor < Len(CurveSplines)
       /\ Len(dst) = PointsBefore(CurveSplines, Len(CurveSplines))
       /\ \A i \in IndexRange(Len(dst)) :
            IF i \in mask
              THEN /\ dst[i + 1].writes = 1
                   /\ \A s \in IndexRange(Len(CurveSplines)) :
                        OwnsPoint(CurveSplines, s, i)
                          => dst[i + 1].value = SpanValueAt(s, i)
              ELSE dst[i + 1].writes = 0

\* C13 happens: a mask that is not the full range is materialized over a
\* curve with a zero-point spline before the last masked point, and one of
\* the masked points belongs to a spline whose span is empty.
C13_Witness ==
  /\ phase = "spans materialized"
  /\ ~crashed
  /\ ~MaskIsFullRange
  /\ op = "materialize_to_uninitialized"
  /\ cursor > 0
  /\ \E s \in IndexRange(cursor) : At(CurveSplines, s).size = 0
  /\ \E i \in mask : \E s \in IndexRange(Len(CurveSplines)) :
       /\ OwnsPoint(CurveSplines, s, i)
       /\ Len(At(LookupSpans(CurveSplines, lookup), s)) = 0
  /\ \E i \in mask : \E s \in IndexRange(Len(CurveSplines)) :
       /\ OwnsPoint(CurveSplines, s, i)
       /\ Len(At(LookupSpans(CurveSplines, lookup), s)) > 0
       /\ i > PointsBefore(CurveSplines, s)

(***************************************************************************)
(* The resolution attribute.                                               *)
(***************************************************************************)
\* Spline index of the curve the lookup was made on has a resolution.
HasResolution(index) ==
  At(heap[lookup.curve].splines, index).type \in {CURVE_TYPE_BEZIER, CURVE_TYPE_NURBS}

\* C14: resolution writes are clamped to a floor of 1.  After any sequence
\* of writes, -1 and 0 among them, the resolution of every spline reads as
\* at least 1; a write of r to a Bezier or NURBS spline reads back as
\* max(r, 1); a spline of a kind without resolution reads 1 and is left
\* unchanged by a write.
C14_ResolutionFloor ==
  /\ [](\A k \in 1..Len(CurveSplines) : get_spline_resolution(CurveSplines[k]) >= 1)
  /\ []((phase = "get" /\ lookup.name = "resolution" /\ got.index = written.index)
         => got.value = IF HasResolution(got.index)
                          THEN (IF written.value >= 1 THEN written.value ELSE 1)
                          ELSE 1)
  /\ [][(op' = "set" /\ lookup.name = "resolution")
         => \A k \in 1..Len(heap[lookup.curve].splines) :
              heap[lookup.curve].splines[k].type = CURVE_TYPE_POLY
                => heap'[lookup.curve].splines[k] = heap[lookup.curve].splines[k]]_vars

\* C14 happens: after a write that raised the resolution of the first
\* spline to 3, a write of -1 or 0 to the second spline, a Bezier or NURBS
\* spline, reads back as 1, and the curve has a poly spline too.
C14_Witness ==
  /\ phase = "get"
  /\ lookup.name = "resolution"
  /\ written.value < 1
  /\ written.index = 1
  /\ got = [index |-> 1, value |-> 1]
  /\ HasResolution(1)
  /\ At(CurveSplines, 0).resolution = 3

\* C14 happens for a spline without resolution: a write of 3 to a poly
\* spline is read back as 1.
C14_PolyWitness ==
  /\ phase = "get"
  /\ lookup.name = "resolution"
  /\ written.value = 3
  /\ got = [index |-> written.index, value |-> 1]
  /\ ~HasResolution(written.index)

(***************************************************************************)
(* The providers of the point attributes.                                  *)
(***************************************************************************)
\* The splines of the curve the lookup was made on, before and after a step.
LookupSplines == heap[lookup.curve].splines
LookupSplinesAfter == heap'[lookup.curve].splines

\* The splines the component holds after a step.
CurveSplinesAfter == IF curve_' = NULL THEN <<>> ELSE heap'[curve_'].splines

HasBezier(splines) ==
  \E k \in 1..Len(splines) : splines[k].type = CURVE_TYPE_BEZIER

\* The spline (1-based) that owns flat index i.
OwnerOf(splines, i) ==
  CHOOSE k \in 1..Len(splines) : OwnsPoint(splines, k - 1, i)

\* C15: a read or write lookup of handle_left or handle_right is absent
\* when the curve has no Bezier spline (a single poly spline of 5 points,
\* for one) and is a virtual array as long as the total point count when
\* the curve has at least one Bezier spline; try_create and try_delete on
\* the handle attributes return false, always, and change nothing.
C15_HandleLookupNeedsBezier ==
  /\ []((/\ phase \in {"read lookup", "lookup"}
          /\ result.name \in BezierHandleNames
          /\ ~crashed
          /\ curve_ # NULL)
         => IF HasBezier(CurveSplines)
              THEN /\ lookup.kind = "BezierHandles"
                   /\ lookup.name = result.name
                   /\ LookupSize(CurveSplines, lookup)
                        = PointsBefore(CurveSplines, Len(CurveSplines))
              ELSE ~LookupPresent(lookup))
  /\ []((phase \in {"created", "deleted"} /\ result.name \in BezierHandleNames)
         => ~result.value)
  /\ [][(op' \in {"try_create", "try_delete"} /\ result'.name \in BezierHandleNames)
         => heap' = heap /\ curve_' = curve_]_vars

\* C15 happens: the write lookup of a handle attribute on the curve of one
\* poly spline of 5 points came back absent.
C15_Witness ==
  /\ phase = "lookup"
  /\ result.name = "handle_left"
  /\ ~crashed
  /\ Len(CurveSplines) = 1
  /\ CurveSplines[1].type = CURVE_TYPE_POLY
  /\ CurveSplines[1].size = 5
  /\ ~LookupPresent(lookup)

\* C15 happens, the other case: a read lookup on a curve of a poly and a
\* Bezier spline gave an array over all points.
C15_PresentWitness ==
  /\ phase = "read lookup"
  /\ result.name = "handle_right"
  /\ lookup.kind = "BezierHandles"
  /\ Len(CurveSplines) = 2
  /\ CurveSplines[1].type = CURVE_TYPE_POLY
  /\ CurveSplines[1].size > 0
  /\ CurveSplines[2].type = CURVE_TYPE_BEZIER
  /\ LookupSize(CurveSplines, lookup) = 3

\* C16: through the handle array of a curve of mixed kinds, get(i) at a
\* point of a spline that is not a Bezier spline is the zero vector, and
\* set(i, v) there and set_all(src) change nothing of such a spline, its
\* cache validity included; set(i, v) at a point of a Bezier spline stores
\* v in the selected handle of that point, changes nothing else, and marks
\* the cache of that spline, and of that spline only, invalid.
C16_HandlesOfMixedCurve ==
  /\ []((/\ phase = "get"
          /\ lookup.kind = "BezierHandles"
          /\ LookupSplines[OwnerOf(LookupSplines, got.index)].type # CURVE_TYPE_BEZIER)
         => got.value = Float(0))
  /\ [][(op' = "set" /\ lookup.kind = "BezierHandles")
         => \A k \in 1..Len(LookupSplines) :
              IF /\ k = OwnerOf(LookupSplines, written'.index)
                 /\ LookupSplines[k].type = CURVE_TYPE_BEZIER
                THEN LET p == written'.index - PointsBefore(LookupSplines, k - 1) + 1
                     IN LookupSplinesAfter[k] =
                          IF lookup.name = "handle_right"
                            THEN [LookupSplines[k] EXCEPT
                                    !.handle_positions_right[p] = written'.value,
                                    !.cache_valid = FALSE]
                            ELSE [LookupSplines[k] EXCEPT
                                    !.handle_positions_left[p] = written'.value,
                                    !.cache_valid = FALSE]
                ELSE LookupSplinesAfter[k] = LookupSplines[k]]_vars
  /\ [][(op' = "set_all" /\ lookup.kind = "BezierHandles")
         => \A k \in 1..Len(LookupSplines) :
              LookupSplines[k].type # CURVE_TYPE_BEZIER
                => LookupSplinesAfter[k] = LookupSplines[k]]_vars

\* C16 happens: on a curve of a Bezier spline and another spline, both with
\* points, a non-zero value was written at a point of the other spline and
\* read back as zero, the cache of that spline still valid.
C16_Witness ==
  /\ phase = "get"
  /\ lookup.kind = "BezierHandles"
  /\ written.value # Float(0)
  /\ got = [index |-> written.index, value |-> Float(0)]
  /\ LookupSplines[OwnerOf(LookupSplines, got.index)].type # CURVE_TYPE_BEZIER
  /\ LookupSplines[OwnerOf(LookupSplines, got.index)].cache_valid
  /\ \E k \in 1..Len(LookupSplines) :
       LookupSplines[k].type = CURVE_TYPE_BEZIER /\ LookupSplines[k].size > 0

\* C16 happens, the Bezier case: a value written at a point of a Bezier
\* spline of a mixed curve was read back, that spline's cache invalid and
\* the other spline's cache valid.
C16_BezierWitness ==
  /\ phase = "get"
  /\ lookup.kind = "BezierHandles"
  /\ got = written
  /\ written.value = Float(3)
  /\ Len(LookupSplines) = 2
  /\ LookupSplines[OwnerOf(LookupSplines, got.index)].type = CURVE_TYPE_BEZIER
  /\ ~LookupSplines[OwnerOf(LookupSplines, got.index)].cache_valid
  /\ \E k \in 1..2 : LookupSplines[k].size > 0 /\ LookupSplines[k].cache_valid

\* Every spline carries a slot of that name, all of one type.
CarriedByAll(splines, name) ==
  /\ Len(splines) >= 1
  /\ \A k \in 1..Len(splines) : splines[k].attributes[name].type # "none"
  /\ \A j, k \in 1..Len(splines) :
       splines[j].attributes[name].type = splines[k].attributes[name].type

CarriedBySome(splines, name) ==
  \E k \in 1..Len(splines) : splines[k].attributes[name].type # "none"

C17_PresentWitness ==
  /\ phase = "read lookup"
  /\ result.name = "weight"
  /\ LookupPresent(lookup)
  /\ Len(CurveSplines) = 2

\* C18: try_delete removes the named slot from every spline and returns
\* true exactly when a removal occurred on at least one spline; it returns
\* false when no spline carried the slot and when there is no curve.
C18_DeleteReportsAnyRemoval ==
  [][(op' = "try_delete" /\ result'.name \in LayerNames)
       => /\ ~CarriedBySome(CurveSplinesAfter, result'.name)
          /\ result'.value <=> CarriedBySome(CurveSplines, result'.name)]_vars

\* Flat index order of the values the splines hold in the slot of a name.
\* The slot of every spline read at every flat index gives the values.
ReadsBack(splines, name, values) ==
  \A i \in IndexRange(PointsBefore(splines, Len(splines))) :
    LET k == OwnerOf(splines, i)
    IN /\ Len(splines[k].attributes[name].data) = splines[k].size
       /\ At(splines[k].attributes[name].data, i - PointsBefore(splines, k - 1))
            = At(values, i)

\* C19: with no allocation refused, try_create on a curve of at least one
\* spline none of which carries the name returns true, and every spline
\* then carries a slot of that name and type; with a value initializer
\* (VArray or MoveArray) the attribute reads back initializer[i] at every
\* flat index, on one spline and on several.  It returns false and creates
\* nothing when there is no curve, when the curve has no spline and when
\* the domain is not the point domain.
C19_CreateOnEverySpline ==
  [][(op' = "try_create" /\ result'.name \in LayerNames /\ result'.refused = -1)
       => IF \/ curve_ = NULL
             \/ Len(CurveSplines) = 0
             \/ result'.domain # ATTR_DOMAIN_POINT
            THEN ~result'.value /\ CurveSplinesAfter = CurveSplines
          ELSE IF ~CarriedBySome(CurveSplines, result'.name)
            THEN /\ ~crashed'
                 /\ result'.value
                 /\ \A k \in 1..Len(CurveSplinesAfter) :
                      CurveSplinesAfter[k].attributes[result'.name].type = result'.type
                 /\ result'.initializer # "Default"
                      => ReadsBack(CurveSplinesAfter, result'.name, written'.value)
          ELSE TRUE]_vars

ReadsAs(splines, lk, index, v) ==
  /\ ~GetReadsOutOfBounds(splines, lk, index)
  /\ LookupGet(splines, lk, index) = v

\* Every set(i, v) through the lookup is a write inside the point data.
WritesInBounds(splines, lk) ==
  \A i \in IndexRange(LookupSize(splines, lk)) : ~GetReadsOutOfBounds(splines, lk, i)

\* The point data after set(i, src[i]) for i, i + 1, ... in turn.
RECURSIVE SetEach(_, _, _, _)
SetEach(splines, lk, src, i) ==
  IF i >= Len(src) THEN splines
  ELSE SetEach(LookupSet(splines, lk, i, At(src, i)), lk, src, i + 1)

\* The lookup is one of the per-spline write adapters of the claim.
IsPerSplineWrite ==
  /\ phase = "lookup"
  /\ lookup.kind \in {"SplinePoints", "SplinePosition"}

\* C21: for the per-spline span adapter and the position adapter, a step
\* set_all(src) with src of the length of the array leaves get(i) = src[i]
\* for every i, leaves in every spline s exactly the slice
\* src[offsets[s] .. offsets[s + 1]), and leaves the same point data as
\* set(i, src[i]) for every i in turn; a step set(i, v) leaves get(i) = v
\* and changes the value at no other index.
C21_SetAllEqualsSetEach ==
  [][LET before == heap[lookup.curve].splines
         after == heap'[lookup.curve].splines
         src == written'.value
     IN /\ IsPerSplineWrite /\ op' = "set_all" =>
             /\ ~crashed'
             /\ \A i \in IndexRange(Len(src)) : ReadsAs(after, lookup, i, At(src, i))
             /\ \A s \in 1..Len(after) :
                  SpanOf(after[s], lookup.name)
                    = Slice(src, At(lookup.offsets, s - 1),
                            At(lookup.offsets, s) - At(lookup.offsets, s - 1))
             /\ WritesInBounds(before, lookup)
             /\ after = SetEach(before, lookup, src, 0)
        /\ IsPerSplineWrite /\ op' = "set" =>
             /\ ~crashed'
             /\ ReadsAs(after, lookup, written'.index, written'.value)
             /\ \A j \in IndexRange(LookupSize(before, lookup)) \ {written'.index} :
                  /\ GetReadsOutOfBounds(after, lookup, j)
                       = GetReadsOutOfBounds(before, lookup, j)
                  /\ ~GetReadsOutOfBounds(before, lookup, j)
                       => LookupGet(after, lookup, j) = LookupGet(before, lookup, j)]_vars

\* The splines a caller wrote positions to through the lookup: the owner of
\* the index of a set, every spline with points after a set_all.
PositionWrittenTo(s) ==
  IF phase = "written"
    THEN At(LookupSplines, s).size > 0
    ELSE LookupSize(LookupSplines, lookup) > 0
           /\ s = (IF lookup.kind = "Span"
                      THEN 0
                      ELSE OwnerOf(LookupSplines, written.index) - 1)

\* C22: every present write lookup of the position attribute, on curves
\* with and without Bezier splines, carries an update callback; once the
\* callback has run after the position writes of the caller (one set, or a
\* set_all over all splines), every spline a position was written to has
\* its evaluated cache marked invalid; the write lookups of radius and id
\* carry no callback.
C22_PositionCallbackInvalidates ==
  /\ phase \in {"lookup", "set", "written"} /\ LookupPresent(lookup)
       /\ lookup.name = "position"
       => lookup.tag_modified_fn
  /\ LookupPresent(lookup) /\ lookup.name \in {"radius", "id"}
       => ~lookup.tag_modified_fn
  /\ op = "tag_modified_fn" /\ lookup.name = "position" /\ ~crashed
       => \A s \in IndexRange(Len(LookupSplines)) :
            PositionWrittenTo(s) => ~At(LookupSplines, s).cache_valid

\* C22 witness: the callback has run after a set_all of positions over a
\* curve with a Bezier spline and at least two splines with points.
C22_Witness ==
  /\ op = "tag_modified_fn"
  /\ phase = "written"
  /\ lookup.kind = "SplinePosition"
  /\ Cardinality({s \in IndexRange(Len(LookupSplines)) : PositionWrittenTo(s)}) >= 2
  /\ \A s \in IndexRange(Len(LookupSplines)) : ~At(LookupSplines, s).cache_valid

\* C22 witness without Bezier splines: the callback has run after one
\* set(i, v) of a position through the per-spline span adapter.
C22_PolyWitness ==
  /\ op = "tag_modified_fn"
  /\ phase = "set"
  /\ lookup.kind = "SplinePoints"
  /\ lookup.name = "position"
  /\ \E s \in IndexRange(Len(LookupSplines)) :
       PositionWrittenTo(s) /\ ~At(LookupSplines, s).cache_valid

\* C23: in every state reached by replace() with a curve, clear(),
\* release(), get_for_write() and ensure_owns_direct_data(), an ownership
\* tag other than Owned implies that the component holds a curve, and no
\* get_for_write() or ensure_owns_direct_data() has copied a null curve.
C23_NonOwnedTagImpliesCurve ==
  /\ ownership_ # Owned => curve_ # NULL
  /\ ~(crashed /\ op \in {"get_for_write", "ensure_owns_direct_data"})

\* All splines carry the same set of (name, type) slots.
SameSlots(splines) ==
  \A i, j \in 1..Len(splines) :
    \A name \in LayerNames :
      splines[i].attributes[name].type = splines[j].attributes[name].type

C25_ExistsIffReadable ==
  phase = "exists" => (result.value <=> LookupPresent(lookup))

\* C25 amended: whenever exists(component) is true try_get_for_read returns
\* an adapter; for position, radius, tilt and id the converse holds too;
\* the handle providers return an adapter while exists is false exactly on
\* a curve with a Bezier spline and no point, and the resolution and cyclic
\* providers exactly on a curve with no spline (an adapter of length 0).
C25_ExistsImpliesReadable ==
  phase = "exists" =>
    /\ result.value => LookupPresent(lookup)
    /\ result.name \in BuiltinPointNames
         => (result.value <=> LookupPresent(lookup))
    /\ result.name \in BezierHandleNames
         => ((LookupPresent(lookup) /\ ~result.value)
               <=> /\ curve_ # NULL
                   /\ HasBezier(CurveSplines)
                   /\ PointsBefore(CurveSplines, Len(CurveSplines)) = 0)
    /\ result.name \in BuiltinSplineNames
         => ((LookupPresent(lookup) /\ ~result.value)
               <=> (curve_ # NULL /\ Len(CurveSplines) = 0))
    /\ LookupPresent(lookup) /\ ~result.value
         => LookupSize(CurveSplines, lookup) = 0

\* C25 witness: exists() is true for the id provider on a curve of mixed
\* spline kinds with a spline of no points, and its read lookup is present.
C25_Witness ==
  /\ phase = "exists"
  /\ result.name = "id"
  /\ result.value
  /\ LookupPresent(lookup)
  /\ Len(CurveSplines) = 2
  /\ CurveSplines[1].size = 0
  /\ CurveSplines[1].type # CurveSplines[2].type

\* C25 witness of the other side: exists() is false for a handle provider
\* on a curve that has only a Bezier spline of no points, and the read
\* lookup is present.
C25_EmptyBezierWitness ==
  /\ phase = "exists"
  /\ result.name = "handle_left"
  /\ ~result.value
  /\ LookupPresent(lookup)

\* A provider call has returned and has failed closed: try_get_for_write
\* returned no lookup, or try_create or try_delete returned false.
FailedClosedStep ==
  /\ ~crashed'
  /\ \/ op' = "attribute_try_get_for_write" /\ ~LookupPresent(lookup')
     \/ op' = "try_create" /\ ~result'.value
     \/ op' = "try_delete" /\ ~result'.value

\* C26: whenever try_get_for_write returns absent, try_create returns false
\* or try_delete returns false, the component holds the same curve object
\* with the same ownership tag as before the call, and every spline
\* carries the same slots and values as before.
C26_FailClosedLeavesUnchanged ==
  [][FailedClosedStep =>
       /\ curve_' = curve_
       /\ ownership_' = ownership_
       /\ CurveSplinesAfter = CurveSplines]_vars

\* C27: across replace, clear, release, copy, get_for_write,
\* ensure_owns_direct_data and the destructor, every curve the component
\* deletes is the curve it holds with the tag Owned at that moment, which
\* is not deleted yet and which it lets go of in the same step (so it
\* deletes no borrowed curve, none twice, and none it has handed out with
\* release(), which deletes nothing and leaves the component without a
\* curve); copy() yields a component that owns a new curve with the same
\* splines and leaves the curve, the ownership and every existing curve as
\* they were, and deleting the copy deletes its clone only.
C27_DeletesOnlyWhatItOwns ==
  [][/\ op' # "delete copy" =>
          \A c \in CurveIds :
            heap[c].st # "deleted" /\ heap'[c].st = "deleted" =>
              /\ c = curve_
              /\ ownership_ = Owned
              /\ heap[c].st = "live"
              /\ curve_' # c
     /\ op' \in {"clear", "replace", "~CurveComponent"}
          /\ curve_ # NULL /\ ownership_ = Owned
          => heap[curve_].st = "live"
     /\ op' = "release" =>
          /\ ret' = curve_
          /\ curve_' = NULL
          /\ heap' = heap
     /\ op' = "copy" =>
          /\ curve_' = curve_
          /\ ownership_' = ownership_
          /\ \A c \in CurveIds : heap[c].st # "free" => heap'[c] = heap[c]
          /\ new_component'.made
          /\ new_component'.ownership_ = Owned
          /\ IF curve_ = NULL
               THEN new_component'.curve_ = NULL
               ELSE /\ new_component'.curve_ # NULL
                    /\ heap[new_component'.curve_].st = "free"
                    /\ heap'[new_component'.curve_].st = "live"
                    /\ heap'[new_component'.curve_].splines = heap[curve_].splines
     /\ op' = "delete copy" =>
          /\ curve_' = curve_
          /\ ownership_' = ownership_
          /\ \A c \in CurveIds \ {new_component.curve_} : heap'[c] = heap[c]
          /\ curve_ # NULL /\ new_component.curve_ # NULL
               => curve_ # new_component.curve_]_vars

\* C27 witness: the component has been destroyed after a copy(); exactly
\* one curve has been deleted on the way, and at least two curves are still
\* there, one of them the clone that the copy owns.
C27_Witness ==
  /\ op = "~CurveComponent"
  /\ ret = NULL
  /\ new_component.made
  /\ new_component.curve_ # NULL
  /\ heap[new_component.curve_].st = "live"
  /\ Cardinality({c \in CurveIds : heap[c].st = "deleted"}) = 1
  /\ Cardinality(LiveIds(heap)) >= 2

=============================================================================
